---- MODULE Spec2Model ----
(***************************************************************************)
(* Model of kernel/scripts/create_changes.py: the commit-diff segmentation *)
(* engine (parse_diff, split_hunk_by_functions, the change aggregator of   *)
(* main, the FILE-N group builder and combine_groups_by_similarity).       *)
(*                                                                         *)
(* Every pass is a pure transformation, so each has a specification of its *)
(* own whose Init draws the pass's input from a bounded pool and whose     *)
(* actions apply the code:                                                 *)
(*   SpecGroup   Stage A, Stage B and the similarity pass (main 1789-1910) *)
(*   SpecAgg     the change aggregator (main 1675-1787)                    *)
(*   SpecParse   run_semcode_diffinfo and parse_diff on diff texts         *)
(*   SpecSemcode the same two steps under every outcome of the analyzer    *)
(*   SpecSplit   split_hunk_by_functions on hunks (1310-1395)              *)
(***************************************************************************)
EXTENDS Integers, Sequences, FiniteSets, TLC

VARIABLES
    \* ---- group builder (main 1789-1910, combine_groups_by_similarity)
    changes_by_file,   \* file -> list of (function, total_lines, diffinfo)
    changes,           \* the Change objects, by creation order (shared by reference)
    file_groups,       \* list of FILE-N groups
    sim_input,         \* the argument of combine_groups_by_similarity
    working_groups,    \* combine_groups_by_similarity: groups, None once merged away
    working_funcs,     \* combine_groups_by_similarity: symbol set per group
    gpc,               \* position of the group builder
    \* ---- change aggregator (main 1675-1787)
    segments,          \* the segments of all hunks, in the order main meets them
    apc,               \* position of the aggregator
    \* ---- symbol lookup and diff parser (main 1656-1661)
    diff_text,         \* the text handed to run_semcode_diffinfo and parse_diff
    analyzer,          \* what the environment holds: flag, database, binary, output
    diffinfo,          \* the value returned by run_semcode_diffinfo
    file_changes,      \* the list returned by parse_diff (FileChange references)
    file_heap,         \* the FileChange objects created by parse_diff
    hunk_heap,         \* the Hunk objects created by parse_diff
    ppc,               \* position: "semcode", "parse", "done", "raised"
    \* ---- hunk splitter (split_hunk_by_functions 1310-1395)
    split_hunk,        \* the Hunk handed to split_hunk_by_functions
    global_diffinfo,   \* its global_diffinfo argument
    split_segments,    \* the list it returns
    spc,               \* position of the splitter
    \* ---- Python fallback (parse_unified_diff_python 124-166)
    diff_content,      \* the lines of the diff handed to parse_unified_diff_python
    py_result,         \* the DiffParseResult it returns
    py_table,          \* the dict build_result_from_python makes of it
    fpc,               \* position of the fallback
    \* ---- find_function_end 710-787
    source_lines,      \* the lines of the source file, each a sequence of characters
    start_line,        \* the index the scan starts at (0-based, as in the code)
    end_line,          \* the value returned by find_function_end
    epc,               \* position of the scan
    \* ---- get_definition_for_change 855-905
    definition_file,   \* what the source file holds around the changed line
    definition,        \* the value returned by get_definition_for_change
    dpc,               \* position of the extraction
    \* ---- claude_xargs.py: the globals 16-19, the workers, the children
    shutdown_event,    \* shutdown_event.is_set()
    signal_received,   \* the global signal_received
    active_processes,  \* the list active_processes (a process is named by its task)
    child,             \* task -> state of the process its worker launched
    wpc,               \* task -> position of run_claude_command
    returned,          \* task -> the tuple run_claude_command returned, or None
    procs,             \* kill_all_processes: the local list procs
    kpc,               \* position of signal_handler / kill_all_processes
    mpc                \* position of main (212-249)

groupVars == <<changes_by_file, changes, file_groups, sim_input,
               working_groups, working_funcs, gpc>>

aggVars == <<segments, apc>>

parseVars == <<diff_text, analyzer, diffinfo, file_changes, file_heap, hunk_heap, ppc>>

splitVars == <<split_hunk, global_diffinfo, split_segments, spc>>

fallbackVars == <<diff_content, py_result, py_table, fpc>>

endVars == <<source_lines, start_line, end_line, epc>>

definitionVars == <<definition_file, definition, dpc>>

xargsVars == <<shutdown_event, signal_received, active_processes, child, wpc,
               returned, procs, kpc, mpc>>

vars == <<changes_by_file, changes, file_groups, sim_input,
          working_groups, working_funcs, gpc, segments, apc,
          diff_text, analyzer, diffinfo, file_changes, file_heap, hunk_heap, ppc,
          split_hunk, global_diffinfo, split_segments, spc,
          diff_content, py_result, py_table, fpc,
          source_lines, start_line, end_line, epc,
          definition_file, definition, dpc,
          shutdown_event, signal_received, active_processes, child, wpc,
          returned, procs, kpc, mpc>>

\* Python's None where a dict or an object is expected
None == [none |-> TRUE]
\* None where a name is expected (the code only tests such names for truth,
\* and the empty string is as false as None)
NoName == ""
\* "file_num": None of a group not numbered yet
NoNum == 0

(***************************************************************************)
(* Program constants (create_changes.py 66-83)                             *)
(***************************************************************************)
MAX_COMBINED_ADDED_LINES == 250
MAX_NEW_FUNCTION_COMBINED_LINES == 250
MAX_LINES_PER_FILE == 250
MAX_COMBINED_FILE_GROUP_LINES == 250
MAX_SIMILARITY_COMBINED_LINES == 500
\* MIN_FUNCTION_OVERLAP_RATIO = 0.8, kept exact as the fraction 4/5
MIN_FUNCTION_OVERLAP_RATIO_NUM == 4
MIN_FUNCTION_OVERLAP_RATIO_DEN == 5

(***************************************************************************)
(* Bounds of the model                                                     *)
(***************************************************************************)
\* number of intermediate changes handed to the group builder
MaxChanges == 3
\* the file paths, as their rank in sorted(changes_by_file.keys())
Files == {1, 2}

\* generic helpers
Min(a, b) == IF a <= b THEN a ELSE b

RECURSIVE SumSeq(_)
SumSeq(s) == IF s = <<>> THEN 0 ELSE Head(s) + SumSeq(Tail(s))

RECURSIVE SeqRange(_)
SeqRange(s) == IF s = <<>> THEN {} ELSE {Head(s)} \cup SeqRange(Tail(s))

(***************************************************************************)
(* Group builder input: what the aggregator leaves in changes_by_file.     *)
(* A function name is the list of names that ", ".join wrote (one name for *)
(* a modification, several for combined new functions); diffinfo is None   *)
(* or the merged record of merge_diffinfo.                                 *)
(***************************************************************************)
ChangePool ==
    {c \in [file : Files,
            function : {<<"unknown">>, <<"f">>, <<"g">>},
            total_lines : {100, 200, 300},
            diffinfo : {None,
                        [modifies |-> "f", types |-> <<>>,
                         callers |-> <<>>, calls |-> <<"g">>],
                        [modifies |-> "f", types |-> <<>>,
                         callers |-> <<>>, calls |-> <<"a", "b", "c", "d">>],
                        [modifies |-> "g", types |-> <<>>,
                         callers |-> <<>>, calls |-> <<"a", "b", "c", "d">>]}] :
        /\ c.diffinfo # None =>
              c.function = <<c.diffinfo.modifies>> /\ c.total_lines = 200
        /\ c.function = <<"unknown">> => c.total_lines < 300}

\* the inputs: up to MaxChanges changes, listed file by file in path order
ChangeInputs ==
    {s \in UNION {[1..n -> ChangePool] : n \in 0..MaxChanges} :
        \A k \in 1..(Len(s) - 1) : s[k].file <= s[k + 1].file}

RECURSIVE SelectFile(_, _)
SelectFile(s, f) ==
    IF s = <<>> THEN <<>>
    ELSE IF Head(s).file = f
         THEN <<[function |-> Head(s).function,
                 total_lines |-> Head(s).total_lines,
                 diffinfo |-> Head(s).diffinfo]>> \o SelectFile(Tail(s), f)
         ELSE SelectFile(Tail(s), f)

(***************************************************************************)
(* Stage A: main 1789-1852                                                 *)
(***************************************************************************)
\* the flush test of line 1804
StageAFull_IgnoresNext(current_group_lines, total_lines) ==
    current_group_lines > 0 /\ current_group_lines > MAX_LINES_PER_FILE

StageAFull(current_group_lines, total_lines) ==
    current_group_lines > 0
    /\ current_group_lines + total_lines > MAX_LINES_PER_FILE

NewGroup(file_num, files, chs, total_lines) ==
    [file_num |-> file_num, files |-> files, changes |-> chs,
     total_lines |-> total_lines]

\* one pass of the inner loop (1802-1842); st carries the locals
StageAChange(st, file_path, c) ==
    LET flush == StageAFull(st.current_group_lines, c.total_lines)
        s1 == IF flush
              THEN [st EXCEPT
                      !.file_groups = Append(@, NewGroup(st.file_num, <<file_path>>,
                                         st.current_group_changes,
                                         st.current_group_lines)),
                      !.file_num = @ + 1,
                      !.current_group_changes = <<>>,
                      !.current_group_lines = 0,
                      !.change_num = 1]
              ELSE st
        change == [file_num |-> s1.file_num, change_num |-> s1.change_num,
                   file |-> file_path, function |-> c.function,
                   total_lines |-> c.total_lines, diffinfo |-> c.diffinfo]
    IN [s1 EXCEPT
          !.changes = Append(@, change),
          !.current_group_changes = Append(@, Len(s1.changes) + 1),
          !.current_group_lines = @ + c.total_lines,
          !.change_num = @ + 1]

RECURSIVE StageAChanges(_, _, _)
StageAChanges(st, file_path, list) ==
    IF list = <<>> THEN st
    ELSE StageAChanges(StageAChange(st, file_path, Head(list)), file_path, Tail(list))

\* one pass of the outer loop (1795-1852): one file of changes_by_file
StageAFile(st, file_path, list) ==
    LET s0 == [st EXCEPT !.current_group_changes = <<>>,
                         !.current_group_lines = 0,
                         !.change_num = 1]
        s1 == StageAChanges(s0, file_path, list)
    IN IF s1.current_group_changes # <<>>
       THEN [s1 EXCEPT
               !.file_groups = Append(@, NewGroup(s1.file_num, <<file_path>>,
                                  s1.current_group_changes,
                                  s1.current_group_lines)),
               !.file_num = @ + 1]
       ELSE s1

\* sorted(changes_by_file.keys()): the files that hold a change, in path order
RECURSIVE StageAFiles(_, _, _)
StageAFiles(st, cbf, f) ==
    IF f \notin DOMAIN cbf THEN st
    ELSE IF cbf[f] = <<>> THEN StageAFiles(st, cbf, f + 1)
    ELSE StageAFiles(StageAFile(st, f, cbf[f]), cbf, f + 1)

StageAResult(cbf) ==
    StageAFiles([file_groups |-> <<>>, changes |-> <<>>, file_num |-> 1,
                 current_group_changes |-> <<>>, current_group_lines |-> 0,
                 change_num |-> 1], cbf, 1)

(***************************************************************************)
(* Stage B: main 1854-1903                                                 *)
(***************************************************************************)
\* the test of line 1869 without the total of the next group
StageBFits_IgnoresNext(current_combined, group) ==
    current_combined.total_lines <= MAX_COMBINED_FILE_GROUP_LINES

\* the merge test of line 1869
StageBFits(current_combined, group) ==
    current_combined.total_lines + group.total_lines
        <= MAX_COMBINED_FILE_GROUP_LINES

\* one pass of the loop 1860-1882; st = [combined_groups, current_combined]
StageBGroup(st, group) ==
    IF st.current_combined = None
    THEN [st EXCEPT !.current_combined =
            NewGroup(NoNum, group.files, group.changes, group.total_lines)]
    ELSE IF StageBFits(st.current_combined, group)
    THEN [st EXCEPT !.current_combined =
            NewGroup(NoNum, st.current_combined.files \o group.files,
                     st.current_combined.changes \o group.changes,
                     st.current_combined.total_lines + group.total_lines)]
    ELSE [combined_groups |-> Append(st.combined_groups, st.current_combined),
          current_combined |->
            NewGroup(NoNum, group.files, group.changes, group.total_lines)]

RECURSIVE StageBGroups(_, _)
StageBGroups(st, groups) ==
    IF groups = <<>> THEN st
    ELSE StageBGroups(StageBGroup(st, Head(groups)), Tail(groups))

\* the combined groups before renumbering (1857-1886)
StageBCombined(groups) ==
    LET st == StageBGroups([combined_groups |-> <<>>, current_combined |-> None],
                           groups)
    IN IF st.current_combined # None
       THEN Append(st.combined_groups, st.current_combined)
       ELSE st.combined_groups

(***************************************************************************)
(* Renumbering (1888-1896 and 1539-1548): group idx gets file_num idx, and *)
(* the Change objects it holds get file_num idx and change_num 1, 2, ...   *)
(***************************************************************************)
RenumberGroups(groups) ==
    [idx \in 1..Len(groups) |-> [groups[idx] EXCEPT !.file_num = idx]]

\* position of object id in the list chs (each id occurs once)
PositionIn(chs, id) == CHOOSE k \in 1..Len(chs) : chs[k] = id

RenumberChanges_Stale(objs, groups) == objs

RenumberChanges(objs, groups) ==
    [id \in 1..Len(objs) |->
        IF \E idx \in 1..Len(groups) : id \in SeqRange(groups[idx].changes)
        THEN LET idx == CHOOSE i \in 1..Len(groups) :
                            id \in SeqRange(groups[i].changes)
             IN [objs[id] EXCEPT !.file_num = idx,
                                 !.change_num = PositionIn(groups[idx].changes, id)]
        ELSE objs[id]]

(***************************************************************************)
(* extract_group_functions (1428-1452) and calculate_function_overlap      *)
(* (1455-1467)                                                             *)
(***************************************************************************)
ChangeFunctions(change) ==
    (IF change.function # <<>> /\ change.function # <<"unknown">>
     THEN SeqRange(change.function) \ {""}
     ELSE {})
    \cup
    (IF change.diffinfo # None
     THEN (IF change.diffinfo.modifies # NoName
           THEN {change.diffinfo.modifies} ELSE {})
          \cup SeqRange(change.diffinfo.callers)
          \cup SeqRange(change.diffinfo.calls)
     ELSE {})

extract_group_functions(objs, group) ==
    UNION {ChangeFunctions(objs[id]) : id \in SeqRange(group.changes)}

\* the ratio len(intersection) / smaller_size as the fraction <<num, den>>
calculate_function_overlap_Union(funcs1, funcs2) ==
    IF funcs1 = {} \/ funcs2 = {} THEN <<0, 1>>
    ELSE <<Cardinality(funcs1 \cup funcs2),
           Min(Cardinality(funcs1), Cardinality(funcs2))>>

calculate_function_overlap_LargerSize(funcs1, funcs2) ==
    IF funcs1 = {} \/ funcs2 = {} THEN <<0, 1>>
    ELSE <<Cardinality(funcs1 \cap funcs2),
           IF Cardinality(funcs1) >= Cardinality(funcs2)
           THEN Cardinality(funcs1) ELSE Cardinality(funcs2)>>

calculate_function_overlap(funcs1, funcs2) ==
    IF funcs1 = {} \/ funcs2 = {} THEN <<0, 1>>
    ELSE <<Cardinality(funcs1 \cap funcs2),
           Min(Cardinality(funcs1), Cardinality(funcs2))>>

\* comparisons of two ratios (denominators are positive)
RatioGeq(a, b) == a[1] * b[2] >= b[1] * a[2]
RatioGt(a, b) == a[1] * b[2] > b[1] * a[2]

MinOverlap == <<MIN_FUNCTION_OVERLAP_RATIO_NUM, MIN_FUNCTION_OVERLAP_RATIO_DEN>>

(***************************************************************************)
(* combine_groups_by_similarity (1470-1550)                                *)
(***************************************************************************)
\* the size test of lines 1504-1506
OverSimilarityLimit_OneSided(gi, gj) ==
    gi.total_lines > MAX_SIMILARITY_COMBINED_LINES

OverSimilarityLimit_AtLimit(gi, gj) ==
    gi.total_lines + gj.total_lines >= MAX_SIMILARITY_COMBINED_LINES

OverSimilarityLimit(gi, gj) ==
    gi.total_lines + gj.total_lines > MAX_SIMILARITY_COMBINED_LINES

\* the test of lines 1508-1509: the pair qualifies and beats the best so far
BetterOverlap_LastWins(overlap, best_overlap) ==
    RatioGeq(overlap, MinOverlap) /\ RatioGeq(overlap, best_overlap)

BetterOverlap(overlap, best_overlap) ==
    RatioGeq(overlap, MinOverlap) /\ RatioGt(overlap, best_overlap)

\* the scan 1496-1511 from pair (i, j) on; best = [overlap, pair]
RECURSIVE ScanPairs(_, _, _, _, _)
ScanPairs(wg, wf, i, j, best) ==
    IF i > Len(wg) THEN best
    ELSE IF wg[i] = None \/ j > Len(wg) THEN ScanPairs(wg, wf, i + 1, i + 2, best)
    ELSE IF wg[j] = None THEN ScanPairs(wg, wf, i, j + 1, best)
    ELSE IF OverSimilarityLimit(wg[i], wg[j]) THEN ScanPairs(wg, wf, i, j + 1, best)
    ELSE LET overlap == calculate_function_overlap(wf[i], wf[j])
         IN IF BetterOverlap(overlap, best.overlap)
            THEN ScanPairs(wg, wf, i, j + 1, [overlap |-> overlap, pair |-> <<i, j>>])
            ELSE ScanPairs(wg, wf, i, j + 1, best)

BestPair(wg, wf) ==
    ScanPairs(wg, wf, 1, 2, [overlap |-> <<0, 1>>, pair |-> None]).pair

\* files_i + [f for f in files_j if f not in files_i] (1521-1523)
RECURSIVE CombineFiles(_, _)
CombineFiles(files_i, files_j) ==
    IF files_j = <<>> THEN <<>>
    ELSE IF Head(files_j) \in SeqRange(files_i)
         THEN CombineFiles(files_i, Tail(files_j))
         ELSE <<Head(files_j)>> \o CombineFiles(files_i, Tail(files_j))

\* the merge of 1526-1532 without the changes of the second group
MergedGroup_DropsSecond(gi, gj) ==
    NewGroup(NoNum, gi.files \o CombineFiles(gi.files, gj.files),
             gi.changes, gi.total_lines + gj.total_lines)

\* the merge of 1526-1532 with the total of the first group kept
MergedGroup_KeepsTotal(gi, gj) ==
    NewGroup(NoNum, gi.files \o CombineFiles(gi.files, gj.files),
             gi.changes \o gj.changes, gi.total_lines)

\* the merged group of 1526-1532
MergedGroup(gi, gj) ==
    NewGroup(NoNum, gi.files \o CombineFiles(gi.files, gj.files),
             gi.changes \o gj.changes, gi.total_lines + gj.total_lines)

\* result = [g for g in working_groups if g is not None] (1540)
RECURSIVE NotNone(_)
NotNone(wg) ==
    IF wg = <<>> THEN <<>>
    ELSE IF Head(wg) = None THEN NotNone(Tail(wg))
         ELSE <<Head(wg)>> \o NotNone(Tail(wg))

\* the values of the variables of a part of the program that has not run
GroupIdle ==
    /\ changes_by_file = [f \in Files |-> <<>>]
    /\ changes = <<>>
    /\ file_groups = <<>>
    /\ sim_input = <<>>
    /\ working_groups = <<>>
    /\ working_funcs = <<>>
    /\ gpc = "idle"

AggIdle ==
    /\ segments = <<>>
    /\ apc = "idle"

ParseIdle ==
    /\ diff_text = None
    /\ analyzer = None
    /\ diffinfo = None
    /\ file_changes = <<>>
    /\ file_heap = <<>>
    /\ hunk_heap = <<>>
    /\ ppc = "idle"

SplitIdle ==
    /\ split_hunk = None
    /\ global_diffinfo = None
    /\ split_segments = <<>>
    /\ spc = "idle"

FallbackIdle ==
    /\ diff_content = <<>>
    /\ py_result = None
    /\ py_table = None
    /\ fpc = "idle"

EndIdle ==
    /\ source_lines = <<>>
    /\ start_line = 0
    /\ end_line = None
    /\ epc = "idle"

DefinitionIdle ==
    /\ definition_file = None
    /\ definition = None
    /\ dpc = "idle"

XargsIdle ==
    /\ shutdown_event = FALSE
    /\ signal_received = FALSE
    /\ active_processes = <<>>
    /\ child = <<>>
    /\ wpc = <<>>
    /\ returned = <<>>
    /\ procs = <<>>
    /\ kpc = "idle"
    /\ mpc = "idle"

(***************************************************************************)
(* The group builder as a state machine                                    *)
(***************************************************************************)
InitGroup ==
    /\ \E s \in ChangeInputs :
          changes_by_file = [f \in Files |-> SelectFile(s, f)]
    /\ changes = <<>>
    /\ file_groups = <<>>
    /\ sim_input = <<>>
    /\ working_groups = <<>>
    /\ working_funcs = <<>>
    /\ gpc = "stage_a"
    /\ AggIdle
    /\ ParseIdle
    /\ SplitIdle
    /\ FallbackIdle
    /\ EndIdle
    /\ DefinitionIdle
    /\ XargsIdle

\* main 1789-1852
StageA ==
    /\ gpc = "stage_a"
    /\ LET st == StageAResult(changes_by_file)
       IN /\ changes' = st.changes
          /\ file_groups' = st.file_groups
    /\ gpc' = "stage_b"
    /\ UNCHANGED <<changes_by_file, sim_input, working_groups, working_funcs>>
    /\ UNCHANGED <<aggVars, parseVars, splitVars, fallbackVars,
                 endVars, definitionVars, xargsVars>>

\* main 1856-1903, taken when len(file_groups) > 1
StageB ==
    /\ gpc = "stage_b"
    /\ Len(file_groups) > 1
    /\ LET combined_groups == StageBCombined(file_groups)
       IN /\ file_groups' = RenumberGroups(combined_groups)
          /\ changes' = RenumberChanges(changes, combined_groups)
    /\ gpc' = "similarity"
    /\ UNCHANGED <<changes_by_file, sim_input, working_groups, working_funcs>>
    /\ UNCHANGED <<aggVars, parseVars, splitVars, fallbackVars,
                 endVars, definitionVars, xargsVars>>

\* main 1856 when there is at most one group: Stage B is skipped
StageBSkipped ==
    /\ gpc = "stage_b"
    /\ Len(file_groups) <= 1
    /\ gpc' = "similarity"
    /\ UNCHANGED <<changes_by_file, changes, file_groups, sim_input,
                   working_groups, working_funcs>>
    /\ UNCHANGED <<aggVars, parseVars, splitVars, fallbackVars,
                 endVars, definitionVars, xargsVars>>

\* combine_groups_by_similarity 1476-1477: nothing to combine
SimilarityTrivial ==
    /\ gpc = "similarity"
    /\ Len(file_groups) <= 1
    /\ sim_input' = file_groups
    /\ gpc' = "done"
    /\ UNCHANGED <<changes_by_file, changes, file_groups,
                   working_groups, working_funcs>>
    /\ UNCHANGED <<aggVars, parseVars, splitVars, fallbackVars,
                 endVars, definitionVars, xargsVars>>

\* combine_groups_by_similarity 1479-1487
SimilarityStart ==
    /\ gpc = "similarity"
    /\ Len(file_groups) > 1
    /\ sim_input' = file_groups
    /\ working_groups' = file_groups
    /\ working_funcs' = [k \in 1..Len(file_groups) |->
                            extract_group_functions(changes, file_groups[k])]
    /\ gpc' = "sim_loop"
    /\ UNCHANGED <<changes_by_file, changes, file_groups>>
    /\ UNCHANGED <<aggVars, parseVars, splitVars, fallbackVars,
                 endVars, definitionVars, xargsVars>>

\* one pass of the while loop 1490-1537 that finds a pair and merges it
SimilarityMerge ==
    /\ gpc = "sim_loop"
    /\ BestPair(working_groups, working_funcs) # None
    /\ LET best_pair == BestPair(working_groups, working_funcs)
           i == best_pair[1]
           j == best_pair[2]
       IN /\ working_groups' =
                [working_groups EXCEPT
                    ![i] = MergedGroup(working_groups[i], working_groups[j]),
                    ![j] = None]
          /\ working_funcs' =
                [working_funcs EXCEPT
                    ![i] = working_funcs[i] \cup working_funcs[j],
                    ![j] = {}]
    /\ UNCHANGED <<changes_by_file, changes, file_groups, sim_input, gpc>>
    /\ UNCHANGED <<aggVars, parseVars, splitVars, fallbackVars,
                 endVars, definitionVars, xargsVars>>

\* the last pass of the loop (no pair) and 1539-1550
SimilarityFinish ==
    /\ gpc = "sim_loop"
    /\ BestPair(working_groups, working_funcs) = None
    /\ LET result == NotNone(working_groups)
       IN /\ file_groups' = RenumberGroups(result)
          /\ changes' = RenumberChanges(changes, result)
    /\ gpc' = "done"
    /\ UNCHANGED <<changes_by_file, sim_input, working_groups, working_funcs>>
    /\ UNCHANGED <<aggVars, parseVars, splitVars, fallbackVars,
                 endVars, definitionVars, xargsVars>>

NextGroup ==
    \/ StageA
    \/ StageB
    \/ StageBSkipped
    \/ SimilarityTrivial
    \/ SimilarityStart
    \/ SimilarityMerge
    \/ SimilarityFinish

SpecGroup == InitGroup /\ [][NextGroup]_vars

(***************************************************************************)
(* combine_groups_by_similarity on its own: the call of main 1906 with the *)
(* groups Stage A and Stage B built from an input of the pool.  The loop   *)
(* runs on until the function returns: a step that is possible is taken.   *)
(***************************************************************************)
InitSimilarity ==
    /\ \E s \in ChangeInputs :
          LET cbf == [f \in Files |-> SelectFile(s, f)]
              st == StageAResult(cbf)
              combined_groups == StageBCombined(st.file_groups)
          IN /\ changes_by_file = cbf
             /\ changes = IF Len(st.file_groups) > 1
                          THEN RenumberChanges(st.changes, combined_groups)
                          ELSE st.changes
             /\ file_groups = IF Len(st.file_groups) > 1
                              THEN RenumberGroups(combined_groups)
                              ELSE st.file_groups
    /\ sim_input = <<>>
    /\ working_groups = <<>>
    /\ working_funcs = <<>>
    /\ gpc = "similarity"
    /\ AggIdle
    /\ ParseIdle
    /\ SplitIdle
    /\ FallbackIdle
    /\ EndIdle
    /\ DefinitionIdle
    /\ XargsIdle

NextSimilarity ==
    \/ SimilarityTrivial
    \/ SimilarityStart
    \/ SimilarityMerge
    \/ SimilarityFinish

SpecSimilarity ==
    InitSimilarity /\ [][NextSimilarity]_vars /\ WF_vars(NextSimilarity)

(***************************************************************************)
(* Properties of the group builder                                         *)
(***************************************************************************)
\* the symbol set of the k-th group handed to combine_groups_by_similarity
InputFuncs(k) == extract_group_functions(changes, sim_input[k])

\* input groups a and b of the similarity pass lie in one output group
SameOutputGroup(a, b) ==
    \E idx \in 1..Len(file_groups) :
        /\ SeqRange(sim_input[a].changes) \subseteq SeqRange(file_groups[idx].changes)
        /\ SeqRange(sim_input[b].changes) \subseteq SeqRange(file_groups[idx].changes)

SimilarityDone == gpc = "done" /\ Len(sim_input) > 1

InputPairs == {p \in (1..Len(sim_input)) \X (1..Len(sim_input)) : p[1] < p[2]}

\* the sum of the total_lines of the Changes a group holds
Aggregate(group) ==
    SumSeq([k \in 1..Len(group.changes) |-> changes[group.changes[k]].total_lines])

\* C3 as stated: after the similarity pass, two input groups with identical
\* symbol sets and a combined total_lines within MAX_SIMILARITY_COMBINED_LINES
\* are in the same output group, whatever else is in the list and also when
\* the common symbol set is empty.
C3_IdenticalSetsAlwaysMerged ==
    SimilarityDone =>
        \A p \in InputPairs :
            (/\ InputFuncs(p[1]) = InputFuncs(p[2])
             /\ sim_input[p[1]].total_lines + sim_input[p[2]].total_lines
                    <= MAX_SIMILARITY_COMBINED_LINES)
            => SameOutputGroup(p[1], p[2])

\* C3 amended: two input groups with identical, non-empty symbol sets are in
\* the same output group whenever no merge can be blocked by size, i.e. the
\* total_lines of all groups of the list sum to at most
\* MAX_SIMILARITY_COMBINED_LINES.
C3_IdenticalSetsMerged ==
    SimilarityDone =>
        \A p \in InputPairs :
            (/\ InputFuncs(p[1]) = InputFuncs(p[2])
             /\ InputFuncs(p[1]) # {}
             /\ SumSeq([k \in 1..Len(sim_input) |-> sim_input[k].total_lines])
                    <= MAX_SIMILARITY_COMBINED_LINES)
            => SameOutputGroup(p[1], p[2])

\* C3 witness: three groups went through the pass, two of them with the same
\* non-empty symbol set, the list within the cap, and the two were merged.
C3_Witness ==
    /\ SimilarityDone
    /\ Len(sim_input) >= 3
    /\ SumSeq([k \in 1..Len(sim_input) |-> sim_input[k].total_lines])
            <= MAX_SIMILARITY_COMBINED_LINES
    /\ \E p \in InputPairs :
          /\ InputFuncs(p[1]) = InputFuncs(p[2])
          /\ InputFuncs(p[1]) # {}
          /\ SameOutputGroup(p[1], p[2])

\* C4 as stated: two input groups whose symbol sets are disjoint are never in
\* the same output group, also after earlier merges enlarged one of them.
C4_DisjointNeverTogether ==
    SimilarityDone =>
        \A p \in InputPairs :
            InputFuncs(p[1]) \cap InputFuncs(p[2]) = {}
                => ~SameOutputGroup(p[1], p[2])

\* C4 amended: every single merge of the similarity pass joins two groups
\* whose current symbol sets (working_funcs, the union over the input groups
\* merged so far) share a symbol; disjoint input groups can still meet in one
\* output group through a third group that overlaps both.
C4_MergedPairOverlaps ==
    [][\A i, j \in DOMAIN working_groups :
          (/\ gpc = "sim_loop"
           /\ i # j
           /\ working_groups[j] # None
           /\ working_groups'[j] = None
           /\ working_groups'[i] # working_groups[i])
          => working_funcs[i] \cap working_funcs[j] # {}]_vars

\* C4 witness: the pass merged some groups and left two groups with disjoint
\* symbol sets apart.
C4_Witness ==
    /\ SimilarityDone
    /\ Len(file_groups) < Len(sim_input)
    /\ \E p \in InputPairs :
          /\ InputFuncs(p[1]) \cap InputFuncs(p[2]) = {}
          /\ InputFuncs(p[1]) # {}
          /\ InputFuncs(p[2]) # {}
          /\ ~SameOutputGroup(p[1], p[2])

\* a group is within cap, or holds exactly one Change that alone exceeds it
WithinCapOrSingle(group, cap) ==
    \/ group.total_lines <= cap /\ Aggregate(group) <= cap
    \/ /\ Len(group.changes) = 1
       /\ changes[group.changes[1]].total_lines > cap

\* C5: after Stage A every group is within MAX_LINES_PER_FILE, and after
\* Stage B every group is within MAX_COMBINED_FILE_GROUP_LINES, unless the
\* group holds exactly one Change whose own total_lines exceeds the cap.
C5_StageCaps ==
    /\ gpc = "stage_b" =>
          \A idx \in 1..Len(file_groups) :
              WithinCapOrSingle(file_groups[idx], MAX_LINES_PER_FILE)
    /\ gpc = "similarity" =>
          \A idx \in 1..Len(file_groups) :
              WithinCapOrSingle(file_groups[idx], MAX_COMBINED_FILE_GROUP_LINES)

\* C5 witness: after Stage B there is a group combined from two files and a
\* group that consists of one oversized Change.
C5_Witness ==
    /\ gpc = "similarity"
    /\ \E idx \in 1..Len(file_groups) : Len(file_groups[idx].files) > 1
    /\ \E idx \in 1..Len(file_groups) :
          file_groups[idx].total_lines > MAX_COMBINED_FILE_GROUP_LINES

\* C6: every group the similarity pass created by merging (also by several
\* merges into the same group) has total_lines within
\* MAX_SIMILARITY_COMBINED_LINES.
C6_MergedWithinCap ==
    \A k \in DOMAIN working_groups :
        (/\ working_groups[k] # None
         /\ Len(working_groups[k].changes) > Len(sim_input[k].changes))
        => /\ working_groups[k].total_lines <= MAX_SIMILARITY_COMBINED_LINES
           /\ Aggregate(working_groups[k]) <= MAX_SIMILARITY_COMBINED_LINES

\* C6 witness: two groups have been merged away, one after the other.
C6_Witness ==
    /\ gpc = "sim_loop"
    /\ Cardinality({k \in DOMAIN working_groups : working_groups[k] = None}) >= 2

\* C8: in the final output the groups are numbered 1..N in list order, the
\* Changes of each group 1..k in list order, every Change carries the number
\* of its group, and no two Changes share (file_num, change_num).
C8_FinalNumbering ==
    gpc = "done" =>
        /\ \A idx \in 1..Len(file_groups) :
              /\ file_groups[idx].file_num = idx
              /\ \A k \in 1..Len(file_groups[idx].changes) :
                    /\ changes[file_groups[idx].changes[k]].file_num = idx
                    /\ changes[file_groups[idx].changes[k]].change_num = k
        /\ \A a, b \in 1..Len(changes) :
              a # b => <<changes[a].file_num, changes[a].change_num>>
                        # <<changes[b].file_num, changes[b].change_num>>

\* C8 witness: the similarity pass merged groups and left at least two, one
\* of them holding Changes of two merged groups.
C8_Witness ==
    /\ SimilarityDone
    /\ Len(file_groups) >= 2
    /\ Len(file_groups) < Len(sim_input)

\* the pairs of live groups that qualify for a merge: combined total_lines
\* within the cap and overlap ratio at least MIN_FUNCTION_OVERLAP_RATIO
QualifyingPairs(wg, wf) ==
    {p \in (1..Len(wg)) \X (1..Len(wg)) :
        /\ p[1] < p[2]
        /\ wg[p[1]] # None
        /\ wg[p[2]] # None
        /\ wg[p[1]].total_lines + wg[p[2]].total_lines
              <= MAX_SIMILARITY_COMBINED_LINES
        /\ wf[p[1]] # {}
        /\ wf[p[2]] # {}
        /\ 5 * Cardinality(wf[p[1]] \cap wf[p[2]])
              >= 4 * Min(Cardinality(wf[p[1]]), Cardinality(wf[p[2]]))}

\* the overlap ratio of pair p is at least that of pair q (cross-multiplied)
OverlapAtLeast(wf, p, q) ==
    Cardinality(wf[p[1]] \cap wf[p[2]])
        * Min(Cardinality(wf[q[1]]), Cardinality(wf[q[2]]))
    >= Cardinality(wf[q[1]] \cap wf[q[2]])
        * Min(Cardinality(wf[p[1]]), Cardinality(wf[p[2]]))

\* pair p comes before pair q in the scan (i ascending, then j ascending)
ScannedBefore(p, q) == p[1] < q[1] \/ (p[1] = q[1] /\ p[2] < q[2])

\* the pair merged by the step from this state to the next, or None
MergedPair ==
    IF \E p \in (DOMAIN working_groups) \X (DOMAIN working_groups) :
          /\ working_groups[p[2]] # None
          /\ working_groups'[p[2]] = None
          /\ working_groups'[p[1]] # working_groups[p[1]]
    THEN CHOOSE p \in (DOMAIN working_groups) \X (DOMAIN working_groups) :
          /\ working_groups[p[2]] # None
          /\ working_groups'[p[2]] = None
          /\ working_groups'[p[1]] # working_groups[p[1]]
    ELSE None

OutputFuncs == [k \in 1..Len(file_groups) |->
                   extract_group_functions(changes, file_groups[k])]

\* C12: the similarity pass terminates on every list of groups, and when it
\* has returned no two remaining groups qualify for a merge (combined
\* total_lines within MAX_SIMILARITY_COMBINED_LINES and overlap ratio at
\* least MIN_FUNCTION_OVERLAP_RATIO).
C12_TerminatesWithNoQualifyingPair ==
    /\ <>(gpc = "done")
    /\ [](gpc = "done" => QualifyingPairs(file_groups, OutputFuncs) = {})

\* C12 witness: the pass has returned after a merge, and two of the groups it
\* left share all symbols of the smaller one but are too large together.
C12_Witness ==
    /\ SimilarityDone
    /\ Len(file_groups) < Len(sim_input)
    /\ \E a, b \in 1..Len(file_groups) :
          /\ a < b
          /\ OutputFuncs[a] # {}
          /\ OutputFuncs[a] \subseteq OutputFuncs[b]
          /\ file_groups[a].total_lines + file_groups[b].total_lines
                > MAX_SIMILARITY_COMBINED_LINES

(***************************************************************************)
(* The change aggregator: main 1675-1787.                                  *)
(*                                                                         *)
(* A segment is one tuple returned by split_hunk_by_functions, together    *)
(* with the path of its file.  Its content is a text; the model keeps the  *)
(* three numbers the aggregator computes from it:                          *)
(*   added_lines  count_added_lines(hunk_content)                          *)
(*   total_lines  count_total_lines(hunk_content), which strips trailing   *)
(*                white space before counting                              *)
(*   trailing     the number of trailing lines of the content that this    *)
(*                strip removes (blank context lines at its end)           *)
(* A Change tuple records in field segments the indices of the segments    *)
(* whose header parts and contents were joined into it, in join order.     *)
(***************************************************************************)
MaxSegments == 3

SegmentDiffinfo ==
    [f |-> [modifies |-> "f", types |-> <<"t">>, callers |-> <<>>,
            calls |-> <<"g">>],
     g |-> [modifies |-> "g", types |-> <<"t">>, callers |-> <<"f">>,
            calls |-> <<"h", "g">>]]

Segment(file, func_name, is_new, added, total, trailing, segment_diffinfo) ==
    [file |-> file, func_name |-> func_name, is_new_function |-> is_new,
     added_lines |-> added, total_lines |-> total, trailing |-> trailing,
     diffinfo |-> segment_diffinfo]

SegmentPool ==
    { Segment(1, "f", FALSE,   0,  50, 0, None),
      Segment(1, "f", FALSE, 100, 150, 0, SegmentDiffinfo.f),
      Segment(1, "f", FALSE, 100, 150, 1, SegmentDiffinfo.f),
      Segment(1, "f", FALSE, 200, 201, 0, SegmentDiffinfo.f),
      Segment(1, "f", FALSE, 300, 301, 0, None),
      Segment(1, "g", FALSE, 100, 150, 0, SegmentDiffinfo.g),
      Segment(1, "g", FALSE, 300, 301, 0, None),
      Segment(1, "f", TRUE,   99, 100, 0, SegmentDiffinfo.f),
      Segment(1, "f", TRUE,   99, 100, 1, None),
      Segment(1, "f", TRUE,  199, 200, 0, SegmentDiffinfo.f),
      Segment(1, "g", TRUE,   99, 100, 0, SegmentDiffinfo.g),
      Segment(1, "g", TRUE,  299, 300, 0, None),
      Segment(2, "f", FALSE, 100, 150, 0, SegmentDiffinfo.f),
      Segment(2, "f", FALSE, 300, 301, 0, None),
      Segment(2, "f", TRUE,   99, 100, 0, SegmentDiffinfo.f),
      Segment(2, "g", TRUE,   99, 100, 0, SegmentDiffinfo.g) }

\* main 1675-1691: the hunks of one file follow each other
SegmentInputs ==
    {s \in UNION {[1..n -> SegmentPool] : n \in 0..MaxSegments} :
        \A k \in 1..(Len(s) - 1) : s[k].file <= s[k + 1].file}

\* the lists appended without the test of 1711
AppendNew_KeepDuplicates(merged, items) == merged \o items

\* merge_diffinfo 1709-1712: append the items not yet in the list
RECURSIVE AppendNew(_, _)
AppendNew(merged, items) ==
    IF items = <<>> THEN merged
    ELSE AppendNew(IF Head(items) \in SeqRange(merged) THEN merged
                   ELSE Append(merged, Head(items)),
                   Tail(items))

RECURSIVE MergeInfos(_, _)
MergeInfos(merged, infos) ==
    IF infos = <<>> THEN merged
    ELSE LET info == Head(infos)
         IN MergeInfos(
              [modifies |-> IF info.modifies # NoName /\ merged.modifies = NoName
                            THEN info.modifies ELSE merged.modifies,
               types    |-> AppendNew(merged.types, info.types),
               calls    |-> AppendNew(merged.calls, info.calls),
               callers  |-> AppendNew(merged.callers, info.callers)],
              Tail(infos))

\* main 1697-1715
merge_diffinfo(info_list) ==
    LET infos == NotNone(info_list)
    IN IF infos = <<>> THEN None
       ELSE MergeInfos([modifies |-> NoName, types |-> <<>>,
                        calls |-> <<>>, callers |-> <<>>], infos)

\* count_total_lines 95-98 of "\n\n".join(contents): every content but the
\* last keeps its trailing lines and is followed by one empty line
RECURSIVE CombinedTotalLines(_, _)
CombinedTotalLines(segs, idxs) ==
    IF Len(idxs) = 1 THEN segs[idxs[1]].total_lines
    ELSE segs[idxs[1]].total_lines + segs[idxs[1]].trailing + 1
         + CombinedTotalLines(segs, Tail(idxs))

RECURSIVE SumAdded(_, _)
SumAdded(segs, idxs) ==
    IF idxs = <<>> THEN 0
    ELSE segs[Head(idxs)].added_lines + SumAdded(segs, Tail(idxs))

Indices(segs) == [i \in 1..Len(segs) |-> i]

\* main 1686-1691: modifications_by_key[file][func_name]
ModificationSegments(segs, file, func_name) ==
    SelectSeq(Indices(segs),
              LAMBDA i : /\ ~segs[i].is_new_function
                         /\ segs[i].file = file
                         /\ segs[i].func_name = func_name)

\* main 1682-1685: new_functions_by_file[file]
NewFunctionSegments(segs, file) ==
    SelectSeq(Indices(segs),
              LAMBDA i : segs[i].is_new_function /\ segs[i].file = file)

\* keys of modifications_by_key[file] in insertion order
RECURSIVE ModifiedFunctions(_, _, _)
ModifiedFunctions(segs, file, i) ==
    IF i > Len(segs) THEN <<>>
    ELSE LET rest == ModifiedFunctions(segs, file, i + 1)
         IN IF ~segs[i].is_new_function /\ segs[i].file = file
            THEN <<segs[i].func_name>>
                 \o SelectSeq(rest, LAMBDA n : n # segs[i].func_name)
            ELSE rest

RECURSIVE SegField(_, _, _)
SegField(segs, idxs, field) ==
    IF idxs = <<>> THEN <<>>
    ELSE <<segs[Head(idxs)][field]>> \o SegField(segs, Tail(idxs), field)

\* main 1729-1732 and 1744-1749
ModificationChange(segs, func_name, idxs) ==
    [function    |-> <<func_name>>,
     segments    |-> idxs,
     total_lines |-> CombinedTotalLines(segs, idxs),
     diffinfo    |-> merge_diffinfo(SegField(segs, idxs, "diffinfo"))]

\* main 1762-1768 and 1781-1787
NewFunctionChange(segs, idxs, current_total_lines) ==
    [function    |-> SegField(segs, idxs, "func_name"),
     segments    |-> idxs,
     total_lines |-> current_total_lines,
     diffinfo    |-> merge_diffinfo(SegField(segs, idxs, "diffinfo"))]

ModificationFlush_IgnoresNext(current_added, added_lines) ==
    current_added > 0 /\ current_added > MAX_COMBINED_ADDED_LINES

\* main 1726
ModificationFlush(current_added, added_lines) ==
    current_added > 0 /\ current_added + added_lines > MAX_COMBINED_ADDED_LINES

NewFunctionFlush_IgnoresNext(current_total_lines, total_lines) ==
    /\ current_total_lines > 0
    /\ current_total_lines > MAX_NEW_FUNCTION_COMBINED_LINES

\* main 1760
NewFunctionFlush(current_total_lines, total_lines) ==
    /\ current_total_lines > 0
    /\ current_total_lines + total_lines > MAX_NEW_FUNCTION_COMBINED_LINES

\* main 1725-1749: the loop over one segment_list
RECURSIVE CombineModifications(_, _, _, _, _)
CombineModifications(segs, func_name, idxs, current, current_added) ==
    IF idxs = <<>>
    THEN IF current # <<>>
         THEN <<ModificationChange(segs, func_name, current)>>
         ELSE <<>>
    ELSE LET i == Head(idxs)
         IN IF ModificationFlush(current_added, segs[i].added_lines)
            THEN <<ModificationChange(segs, func_name, current)>>
                 \o CombineModifications(segs, func_name, Tail(idxs),
                                         <<i>>, segs[i].added_lines)
            ELSE CombineModifications(segs, func_name, Tail(idxs),
                                      Append(current, i),
                                      current_added + segs[i].added_lines)

\* main 1719-1749: the loop over the functions of one file
RECURSIVE ModificationsOfFile(_, _, _)
ModificationsOfFile(segs, file, func_names) ==
    IF func_names = <<>> THEN <<>>
    ELSE CombineModifications(segs, Head(func_names),
             ModificationSegments(segs, file, Head(func_names)), <<>>, 0)
         \o ModificationsOfFile(segs, file, Tail(func_names))

\* main 1759-1787: the loop over one func_list
RECURSIVE CombineNewFunctions(_, _, _, _)
CombineNewFunctions(segs, idxs, current, current_total_lines) ==
    IF idxs = <<>>
    THEN IF current # <<>>
         THEN <<NewFunctionChange(segs, current, current_total_lines)>>
         ELSE <<>>
    ELSE LET i == Head(idxs)
         IN IF NewFunctionFlush(current_total_lines, segs[i].total_lines)
            THEN <<NewFunctionChange(segs, current, current_total_lines)>>
                 \o CombineNewFunctions(segs, Tail(idxs), <<i>>,
                                        segs[i].total_lines)
            ELSE CombineNewFunctions(segs, Tail(idxs), Append(current, i),
                                     current_total_lines + segs[i].total_lines)

InitAgg ==
    /\ segments \in SegmentInputs
    /\ apc = "modifications"
    /\ changes_by_file = [f \in Files |-> <<>>]
    /\ changes = <<>>
    /\ file_groups = <<>>
    /\ sim_input = <<>>
    /\ working_groups = <<>>
    /\ working_funcs = <<>>
    /\ gpc = "idle"
    /\ ParseIdle
    /\ SplitIdle
    /\ FallbackIdle
    /\ EndIdle
    /\ DefinitionIdle
    /\ XargsIdle

\* main 1717-1749
ProcessModifications ==
    /\ apc = "modifications"
    /\ changes_by_file' =
          [f \in Files |->
              changes_by_file[f]
              \o ModificationsOfFile(segments, f,
                                     ModifiedFunctions(segments, f, 1))]
    /\ apc' = "new_functions"
    /\ UNCHANGED <<segments, changes, file_groups, sim_input,
                   working_groups, working_funcs, gpc>>
    /\ UNCHANGED <<parseVars, splitVars, fallbackVars,
                 endVars, definitionVars, xargsVars>>

\* main 1751-1787
ProcessNewFunctions ==
    /\ apc = "new_functions"
    /\ changes_by_file' =
          [f \in Files |->
              changes_by_file[f]
              \o CombineNewFunctions(segments, NewFunctionSegments(segments, f),
                                     <<>>, 0)]
    /\ apc' = "done"
    /\ UNCHANGED <<segments, changes, file_groups, sim_input,
                   working_groups, working_funcs, gpc>>
    /\ UNCHANGED <<parseVars, splitVars, fallbackVars,
                 endVars, definitionVars, xargsVars>>

NextAgg ==
    \/ ProcessModifications
    \/ ProcessNewFunctions

SpecAgg == InitAgg /\ [][NextAgg]_vars

\* the Changes held by changes_by_file, as <<file, position>> pairs
AggChanges ==
    {fc \in Files \X (1..MaxSegments + 1) : fc[2] <= Len(changes_by_file[fc[1]])}

AggChange(fc) == changes_by_file[fc[1]][fc[2]]

IsNewFunctionChange(c) == segments[c.segments[1]].is_new_function

C14_NewChangeExactlyWhenOverCap ==
    apc = "done" =>
        /\ \A fc \in AggChanges :
              LET c == AggChange(fc)
              IN ~IsNewFunctionChange(c) =>
                    \A m \in 2..Len(c.segments) :
                        SumAdded(segments, SubSeq(c.segments, 1, m))
                            <= MAX_COMBINED_ADDED_LINES
        /\ \A fc \in AggChanges, fd \in AggChanges :
              LET c == AggChange(fc)
                  d == AggChange(fd)
              IN (/\ fc[1] = fd[1]
                  /\ fd[2] = fc[2] + 1
                  /\ ~IsNewFunctionChange(c)
                  /\ ~IsNewFunctionChange(d)
                  /\ c.function = d.function)
                 => SumAdded(segments, c.segments)
                       + segments[d.segments[1]].added_lines
                           > MAX_COMBINED_ADDED_LINES

\* the new-function Changes of a file, in the order they were appended
NewFunctionChangesOf(file) ==
    SelectSeq(changes_by_file[file], IsNewFunctionChange)

\* the segment lists of a list of Changes, one after the other
RECURSIVE JoinedSegments(_)
JoinedSegments(list) ==
    IF list = <<>> THEN <<>>
    ELSE Head(list).segments \o JoinedSegments(Tail(list))

\* the sum of the total_lines of the first m segments of a Change
RunningTotal(c, m) ==
    SumSeq([k \in 1..m |-> segments[c.segments[k]].total_lines])

\* C15: the new-function pass merges the new-definition segments of one file
\* in their original order whatever their symbols, starts a new Change
\* exactly when the next segment would push the running total line count
\* over MAX_NEW_FUNCTION_COMBINED_LINES, names each Change by its segments'
\* names in that order, and never merges segments of different files.
C15_NewFunctionsByFile ==
    apc = "done" =>
        \A file \in Files :
            LET list == NewFunctionChangesOf(file)
            IN /\ JoinedSegments(list) = NewFunctionSegments(segments, file)
               /\ \A n \in 1..Len(list) :
                     /\ list[n].function =
                           [k \in 1..Len(list[n].segments) |->
                               segments[list[n].segments[k]].func_name]
                     /\ list[n].total_lines =
                           RunningTotal(list[n], Len(list[n].segments))
                     /\ \A m \in 2..Len(list[n].segments) :
                           RunningTotal(list[n], m)
                               <= MAX_NEW_FUNCTION_COMBINED_LINES
                     /\ n < Len(list) =>
                           list[n].total_lines
                             + segments[list[n + 1].segments[1]].total_lines
                               > MAX_NEW_FUNCTION_COMBINED_LINES

\* C15 witness: new functions f and g of file 1 were merged into one Change
\* named "f, g", and a third new function of the file started the next one.
C15_Witness ==
    /\ apc = "done"
    /\ Len(NewFunctionChangesOf(1)) = 2
    /\ NewFunctionChangesOf(1)[1].function = <<"f", "g">>
    /\ Len(NewFunctionChangesOf(1)[2].segments) = 1

(***************************************************************************)
(* Symbol lookup and diff parser: run_semcode_diffinfo 559-625 and         *)
(* parse_diff 1016-1101, called in this order by main 1659-1661.           *)
(*                                                                         *)
(* A diff text is a sequence of blocks of lines and a flag telling whether *)
(* the last line is ended by a newline.  The lines are the strings below;  *)
(* the tests the code makes on a line (startswith, re.match) are tables    *)
(* over these strings.  A Hunk keeps in field lines the positions, in the  *)
(* split text, of the strings the code appends to it.                      *)
(***************************************************************************)
MaxBlocks == 4
MaxSemcodeBlocks == 2

DiffLine ==
    [git_ok     |-> "diff --git a/x.c b/x.c",
     git_bad    |-> "diff --git x.c x.c",
     minus_ok   |-> "--- a/x.c",
     plus_ok    |-> "+++ b/x.c",
     minus_bad  |-> "--- x.c",
     plus_bad   |-> "+++ x.c",
     hunk_func  |-> "@@ -1 +1 @@ int foo(void)",
     hunk_plain |-> "@@ -1 +1 @@",
     hunk_bad   |-> "@@ bad @@",
     added      |-> "+ b;",
     removed    |-> "- a;",
     context    |-> "  c;",
     empty      |-> "",
     other      |-> "index 1..2 100644"]

\* a file header as git writes it, well-formed and not
DiffBlock ==
    [file_ok  |-> <<DiffLine.git_ok, DiffLine.minus_ok, DiffLine.plus_ok>>,
     file_bad |-> <<DiffLine.git_bad, DiffLine.minus_bad, DiffLine.plus_bad>>]

BlockPool ==
    {DiffBlock.file_ok, DiffBlock.file_bad}
    \cup {<<l>> : l \in {DiffLine.hunk_func, DiffLine.hunk_plain, DiffLine.hunk_bad,
                         DiffLine.added, DiffLine.removed, DiffLine.context, DiffLine.empty,
                         DiffLine.other}}

RECURSIVE Flatten(_)
Flatten(blocks) ==
    IF blocks = <<>> THEN <<>> ELSE Head(blocks) \o Flatten(Tail(blocks))

\* the lines of a text
TextLines(text) == Flatten(text.blocks)

\* main 1651-1656: the text starts at the first "diff --git "
TextsUpTo(max_blocks) ==
    {t \in [blocks : {<<h>> \o b : h \in {DiffBlock.file_ok, DiffBlock.file_bad},
                                   b \in UNION {[1..n -> BlockPool] :
                                                   n \in 0..max_blocks}},
            nl : BOOLEAN] :
        t.nl \/ t.blocks[Len(t.blocks)] # <<DiffLine.empty>>}

\* str.split("\n") (1026): a final newline leaves an empty last string
SplitLines(text) ==
    IF text.nl THEN TextLines(text) \o <<"">> ELSE TextLines(text)

\* parse_diff 1033
StartsWithDiffGit(line) == line \in {DiffLine.git_ok, DiffLine.git_bad}

\* parse_diff 1040: re.match(r"diff --git a/(.+) b/(.+)", line)
MatchDiffGit(line) ==
    IF line = DiffLine.git_ok THEN [old_path |-> "x.c", new_path |-> "x.c"] ELSE None

\* parse_diff 1049
StartsWithHunkMarker(line) ==
    line \in {DiffLine.hunk_func, DiffLine.hunk_plain, DiffLine.hunk_bad}

\* parse_diff 1054-1057 and 1078-1082
MatchHunkMarker(line) ==
    IF line = DiffLine.hunk_func
    THEN [old_start |-> 1, old_count |-> 1, new_start |-> 1, new_count |-> 1,
          function_context |-> "int foo(void)"]
    ELSE IF line = DiffLine.hunk_plain
    THEN [old_start |-> 1, old_count |-> 1, new_start |-> 1, new_count |-> 1,
          function_context |-> ""]
    ELSE None

\* parse_diff 1088-1090
IsHunkContent(line) ==
    line \in {DiffLine.added, DiffLine.removed, DiffLine.context, DiffLine.empty}

\* extract_function_from_context 1104-1133 on the contexts of the pool
extract_function_from_context(function_context) ==
    IF function_context = "" THEN "unknown"
    ELSE IF function_context = "int foo(void)" THEN "foo"
    ELSE "unknown"

\* extract_function_from_hunk_header 532-556 on the markers of the pool
extract_function_from_hunk_header(hunk_header) ==
    IF hunk_header = DiffLine.hunk_func THEN "foo" ELSE NoName

(* Decoded JSON values: a dict is a record of its keys, a list is          *)
(* [json_list |-> items], a number is [json_int |-> n].                    *)
IsDict(v) == DOMAIN v \cap {"none", "json_list", "json_int"} = {}
Truthy(v) ==
    /\ v # None
    /\ "json_list" \in DOMAIN v => v.json_list # <<>>
    /\ "json_int" \in DOMAIN v => v.json_int # 0

FunctionInfo(name, types, callers, calls) ==
    [name |-> name, types |-> types, callers |-> callers, calls |-> calls]

\* parse_unified_diff_python 124-166 with parse_hunk_python 169-250 on the
\* lines of the pool, which hold no definition and no call: the modified
\* functions are the ones named by the hunk markers that follow a "+++" line
RECURSIVE PythonModifiedFunctions(_, _, _)
PythonModifiedFunctions(lines, i, in_file) ==
    IF i > Len(lines) THEN {}
    ELSE IF lines[i] \in {DiffLine.plus_ok, DiffLine.plus_bad}
    THEN PythonModifiedFunctions(lines, i + 1, TRUE)
    ELSE IF lines[i] \in {DiffLine.minus_ok, DiffLine.minus_bad}
    THEN PythonModifiedFunctions(lines, i + 1, FALSE)
    ELSE IF in_file /\ StartsWithHunkMarker(lines[i])
              /\ extract_function_from_hunk_header(lines[i]) # NoName
    THEN {extract_function_from_hunk_header(lines[i])}
         \cup PythonModifiedFunctions(lines, i + 1, in_file)
    ELSE PythonModifiedFunctions(lines, i + 1, in_file)

\* the function, macro and type names the fallback can meet, in the order
\* of sorted(): by code point, upper case first
SymbolNames == <<"M", "bar", "baz", "foo", "module_init", "old", "struct s">>

\* sorted(names)
Sorted(names) == SelectSeq(SymbolNames, LAMBDA n : n \in names)

\* a DiffParseResult (113-120); function_calls[name] is empty for a name
\* that is no key of the dict (the code stores no empty set)
DiffParseResult(modified_functions, called_functions, modified_types, modified_macros, function_calls) ==
    [modified_functions |-> modified_functions,
     called_functions   |-> called_functions,
     modified_types     |-> modified_types,
     modified_macros    |-> modified_macros,
     function_calls     |-> function_calls]

NoCalls == [n \in SeqRange(SymbolNames) |-> {}]

\* build_result_from_python 571-587
build_result_from_python(result) ==
    [modified_functions |->
        LET names == Sorted(result.modified_functions)
        IN [k \in 1..Len(names) |->
               FunctionInfo(names[k], <<>>, <<>>,
                            Sorted({c \in result.function_calls[names[k]] :
                                       c # names[k]}))],
     modified_types  |-> Sorted(result.modified_types),
     modified_macros |-> Sorted(result.modified_macros)]

PythonFallback(text) ==
    build_result_from_python(
        DiffParseResult(PythonModifiedFunctions(SplitLines(text), 1, FALSE),
                        {}, {}, {}, NoCalls))

\* what the analyzer can print: a table of the documented shape (564-569),
\* JSON of another shape, or text that is not JSON
AnalyzerOutput ==
    [well_formed |->
        [modified_functions |->
            <<FunctionInfo("foo", <<"t">>, <<"main">>, <<"bar">>)>>,
         modified_types  |-> <<"t">>,
         modified_macros |-> <<>>],
     list      |-> [json_list |-> <<[json_int |-> 1]>>],
     bad_entry |-> [modified_functions |-> <<[json_int |-> 1]>>],
     not_json  |-> [not_json |-> TRUE]]

Analyzer(skip_semcode, db_exists, binary_found, returncode, stdout) ==
    [skip_semcode |-> skip_semcode, db_exists |-> db_exists,
     binary_found |-> binary_found, returncode |-> returncode,
     stdout |-> stdout]

AnalyzerOutcome ==
    [disabled    |-> Analyzer(TRUE, FALSE, FALSE, 0, AnalyzerOutput.not_json),
     no_db       |-> Analyzer(FALSE, FALSE, TRUE, 0, AnalyzerOutput.well_formed),
     no_binary   |-> Analyzer(FALSE, TRUE, FALSE, 0, AnalyzerOutput.not_json),
     fails       |-> Analyzer(FALSE, TRUE, TRUE, 1, AnalyzerOutput.not_json),
     garbage     |-> Analyzer(FALSE, TRUE, TRUE, 0, AnalyzerOutput.not_json),
     list        |-> Analyzer(FALSE, TRUE, TRUE, 0, AnalyzerOutput.list),
     bad_entry   |-> Analyzer(FALSE, TRUE, TRUE, 0, AnalyzerOutput.bad_entry),
     well_formed |-> Analyzer(FALSE, TRUE, TRUE, 0, AnalyzerOutput.well_formed)]

AnalyzerPool == {AnalyzerOutcome[k] : k \in DOMAIN AnalyzerOutcome}

\* run_semcode_diffinfo 589-625
run_semcode_diffinfo(text, env) ==
    IF env.skip_semcode THEN PythonFallback(text)
    ELSE IF ~env.db_exists THEN PythonFallback(text)
    ELSE IF ~env.binary_found THEN PythonFallback(text)
    ELSE IF env.returncode # 0 THEN PythonFallback(text)
    ELSE IF env.stdout = AnalyzerOutput.not_json THEN PythonFallback(text)
    ELSE env.stdout

\* parse_diff 1066-1074: the loop over diffinfo.get("modified_functions", []);
\* .get on a value that is not a dict raises AttributeError
RECURSIVE FindFunctionInfo(_, _)
FindFunctionInfo(func_infos, func_name) ==
    IF func_infos = <<>> THEN [raised |-> FALSE, value |-> None]
    ELSE IF ~IsDict(Head(func_infos)) THEN [raised |-> TRUE, value |-> None]
    ELSE IF Head(func_infos).name = func_name
    THEN [raised |-> FALSE,
          value |-> [modifies |-> func_name,
                     types    |-> Head(func_infos).types,
                     callers  |-> Head(func_infos).callers,
                     calls    |-> Head(func_infos).calls]]
    ELSE FindFunctionInfo(Tail(func_infos), func_name)

\* parse_diff 1059-1074
HunkDiffinfo(info, func_context) ==
    IF Truthy(info) /\ func_context # ""
    THEN LET func_name == extract_function_from_context(func_context)
         IN IF func_name # "unknown"
            THEN IF ~IsDict(info) THEN [raised |-> TRUE, value |-> None]
                 ELSE FindFunctionInfo(
                          IF "modified_functions" \in DOMAIN info
                          THEN info.modified_functions ELSE <<>>,
                          func_name)
            ELSE [raised |-> FALSE, value |-> None]
    ELSE [raised |-> FALSE, value |-> None]

\* current_file.hunks.append(current_hunk), guarded as in 1034, 1050, 1095
AppendCurrentHunk(st) ==
    IF st.current_file # 0 /\ st.current_hunk # 0
    THEN [st EXCEPT !.file_heap[st.current_file].hunks =
                        Append(@, st.current_hunk)]
    ELSE st

\* files.append(current_file), guarded as in 1036, 1097
AppendCurrentFile(st) ==
    IF st.current_file # 0
    THEN [st EXCEPT !.files = Append(@, st.current_file)]
    ELSE st

\* parse_diff 1033-1046
DiffGitLine(st, line) ==
    LET st1 == AppendCurrentFile(AppendCurrentHunk(st))
        match == MatchDiffGit(line)
        st2 == IF match # None
               THEN [st1 EXCEPT
                       !.file_heap = Append(@, [old_path |-> match.old_path,
                                                new_path |-> match.new_path,
                                                hunks |-> <<>>]),
                       !.current_file = Len(st1.file_heap) + 1]
               ELSE st1
    IN [st2 EXCEPT !.current_hunk = 0]

\* parse_diff 1049-1085
HunkMarkerLine(st, line, i, info) ==
    LET st1 == AppendCurrentHunk(st)
        match == MatchHunkMarker(line)
    IN IF match = None THEN st1
       ELSE LET found == HunkDiffinfo(info, match.function_context)
            IN IF found.raised THEN [st1 EXCEPT !.raised = TRUE]
               ELSE [st1 EXCEPT
                       !.hunk_heap = Append(@,
                           [header |-> i,
                            old_start |-> match.old_start,
                            old_count |-> match.old_count,
                            new_start |-> match.new_start,
                            new_count |-> match.new_count,
                            function_context |-> match.function_context,
                            lines |-> <<>>,
                            diffinfo |-> found.value]),
                       !.current_hunk = Len(st1.hunk_heap) + 1]

\* parse_diff 1088-1092
HunkContentLine(st, line, i) ==
    IF st.current_hunk # 0 /\ IsHunkContent(line)
    THEN [st EXCEPT !.hunk_heap[st.current_hunk].lines = Append(@, i)]
    ELSE st

\* parse_diff 1029-1092: the while loop, left when a lookup raises
RECURSIVE ParseLines(_, _, _, _)
ParseLines(st, lines, i, info) ==
    IF st.raised \/ i > Len(lines) THEN st
    ELSE LET line == lines[i]
         IN ParseLines(
              IF StartsWithDiffGit(line) THEN DiffGitLine(st, line)
              ELSE IF StartsWithHunkMarker(line)
                   THEN HunkMarkerLine(st, line, i, info)
                   ELSE HunkContentLine(st, line, i),
              lines, i + 1, info)

\* parse_diff 1016-1101
parse_diff(text, info) ==
    LET st == ParseLines([files |-> <<>>, file_heap |-> <<>>,
                          hunk_heap |-> <<>>, current_file |-> 0,
                          current_hunk |-> 0, raised |-> FALSE],
                         SplitLines(text), 1, info)
    IN IF st.raised THEN st
       ELSE AppendCurrentFile(AppendCurrentHunk(st))

\* main 1656-1659
InitParse ==
    /\ diff_text \in TextsUpTo(MaxBlocks)
    /\ analyzer \in {AnalyzerOutcome.disabled, AnalyzerOutcome.well_formed}
    /\ diffinfo = None
    /\ file_changes = <<>>
    /\ file_heap = <<>>
    /\ hunk_heap = <<>>
    /\ ppc = "semcode"
    /\ GroupIdle
    /\ AggIdle
    /\ SplitIdle
    /\ FallbackIdle
    /\ EndIdle
    /\ DefinitionIdle
    /\ XargsIdle

\* main 1659
RunSemcodeDiffinfo ==
    /\ ppc = "semcode"
    /\ diffinfo' = run_semcode_diffinfo(diff_text, analyzer)
    /\ ppc' = "parse"
    /\ UNCHANGED <<diff_text, analyzer, file_changes, file_heap, hunk_heap>>
    /\ UNCHANGED <<groupVars, aggVars, splitVars, fallbackVars,
                 endVars, definitionVars, xargsVars>>

\* main 1661
ParseDiff ==
    /\ ppc = "parse"
    /\ LET st == parse_diff(diff_text, diffinfo)
       IN IF st.raised
          THEN /\ ppc' = "raised"
               /\ UNCHANGED <<file_changes, file_heap, hunk_heap>>
          ELSE /\ ppc' = "done"
               /\ file_changes' = st.files
               /\ file_heap' = st.file_heap
               /\ hunk_heap' = st.hunk_heap
    /\ UNCHANGED <<diff_text, analyzer, diffinfo>>
    /\ UNCHANGED <<groupVars, aggVars, splitVars, fallbackVars,
                 endVars, definitionVars, xargsVars>>

NextParse ==
    \/ RunSemcodeDiffinfo
    \/ ParseDiff

SpecParse == InitParse /\ [][NextParse]_vars

\* main 1656-1659, with every outcome of the analyzer
InitSemcode ==
    /\ diff_text \in TextsUpTo(MaxSemcodeBlocks)
    /\ analyzer \in AnalyzerPool
    /\ diffinfo = None
    /\ file_changes = <<>>
    /\ file_heap = <<>>
    /\ hunk_heap = <<>>
    /\ ppc = "semcode"
    /\ GroupIdle
    /\ AggIdle
    /\ SplitIdle
    /\ FallbackIdle
    /\ EndIdle
    /\ DefinitionIdle
    /\ XargsIdle

SpecSemcode == InitSemcode /\ [][NextParse]_vars

\* the Hunk references of the returned list, in output order
RECURSIVE OutputHunks(_)
OutputHunks(file_ids) ==
    IF file_ids = <<>> THEN <<>>
    ELSE file_heap[Head(file_ids)].hunks \o OutputHunks(Tail(file_ids))

\* headers and line buffers of the hunks, concatenated in output order
RECURSIVE OutputLines(_)
OutputLines(hunk_ids) ==
    IF hunk_ids = <<>> THEN <<>>
    ELSE <<hunk_heap[Head(hunk_ids)].header>> \o hunk_heap[Head(hunk_ids)].lines
         \o OutputLines(Tail(hunk_ids))

\* a unified diff as git writes it: files, each with hunks, each hunk a
\* well-formed marker and at least one added, removed or context line, the
\* last line ended by a newline
RECURSIVE ValidBlocks(_, _)
ValidBlocks(blocks, phase) ==
    IF blocks = <<>> THEN phase = "body"
    ELSE LET b == Head(blocks)
         IN IF b = DiffBlock.file_ok
            THEN phase \in {"file", "body"} /\ ValidBlocks(Tail(blocks), "marker")
            ELSE IF b \in {<<DiffLine.hunk_func>>, <<DiffLine.hunk_plain>>}
            THEN phase \in {"marker", "body"} /\ ValidBlocks(Tail(blocks), "first")
            ELSE IF b \in {<<DiffLine.added>>, <<DiffLine.removed>>, <<DiffLine.context>>}
            THEN phase \in {"first", "body"} /\ ValidBlocks(Tail(blocks), "body")
            ELSE FALSE

ValidDiff(text) == text.nl /\ ValidBlocks(text.blocks, "file")

\* positions of the hunk markers and hunk lines of the text, in order
HunkLineSequence(text) ==
    SelectSeq([i \in 1..Len(TextLines(text)) |-> i],
              LAMBDA i : \/ StartsWithHunkMarker(TextLines(text)[i])
                         \/ IsHunkContent(TextLines(text)[i]))

\* C2 as stated: for every valid unified diff the headers and line buffers of
\* the hunks returned by parse_diff, concatenated in output order, are the
\* hunk lines of the diff: each in one hunk, in order, none added, none
\* dropped.
C2_HunksReproduceDiff ==
    (ppc = "done" /\ ValidDiff(diff_text))
        => OutputLines(OutputHunks(file_changes)) = HunkLineSequence(diff_text)

\* the marker or file header that most recently precedes line k; 0 if none
RECURSIVE GoverningMarker(_, _)
GoverningMarker(lines, k) ==
    IF k = 0 THEN 0
    ELSE IF StartsWithDiffGit(lines[k]) \/ StartsWithHunkMarker(lines[k]) THEN k
    ELSE GoverningMarker(lines, k - 1)

FollowsMalformedMarker(lines, k) ==
    LET j == GoverningMarker(lines, k - 1)
    IN /\ j # 0
       /\ IsHunkContent(lines[k])
       /\ \/ StartsWithDiffGit(lines[j]) /\ MatchDiffGit(lines[j]) = None
          \/ StartsWithHunkMarker(lines[j]) /\ MatchHunkMarker(lines[j]) = None

\* C10 as stated: parse_diff completes, and a content line that follows a
\* malformed file header or hunk marker is reported in a hunk whose symbol is
\* the placeholder "unknown".
C10_MalformedReportedUnknown ==
    /\ ppc # "raised"
    /\ ppc = "done" =>
          \A k \in 1..Len(TextLines(diff_text)) :
              FollowsMalformedMarker(TextLines(diff_text), k) =>
                 \E h \in SeqRange(OutputHunks(file_changes)) :
                    /\ k \in SeqRange(hunk_heap[h].lines)
                    /\ extract_function_from_context(
                           hunk_heap[h].function_context) = "unknown"

\* the shape documented at run_semcode_diffinfo 564-569
WellShaped(info) ==
    /\ IsDict(info)
    /\ "modified_functions" \in DOMAIN info
    /\ \A k \in 1..Len(info.modified_functions) :
          /\ IsDict(info.modified_functions[k])
          /\ {"name", "types", "callers", "calls"}
                \subseteq DOMAIN info.modified_functions[k]

\* C9 as stated: under every outcome of the analyzer run_semcode_diffinfo
\* returns a symbol table of the expected shape, and the run does not fail.
C9_AlwaysExpectedShape ==
    /\ ppc \in {"parse", "done", "raised"} => WellShaped(diffinfo)
    /\ ppc # "raised"

(***************************************************************************)
(* The hunk splitter: find_function_definitions_in_hunk 1136-1210,         *)
(* find_changed_function_in_hunk 1213-1307, split_hunk_by_functions        *)
(* 1310-1395.                                                              *)
(*                                                                         *)
(* A hunk's lines are the strings below.  What the code reads off a line   *)
(* with a regular expression or a string test is a table over these        *)
(* strings.  A segment's content is its header and the positions, in       *)
(* hunk.lines, of the lines joined into it.                                *)
(***************************************************************************)
MaxSplitBlocks == 3

HunkLine ==
    [sig_foo   |-> "+static int foo(int a)",
     sig_bar   |-> "+static int bar(void) {",
     type_only |-> "+static int",
     name_get  |-> "+get(void)",
     open      |-> "+{",
     stmt      |-> "+ return 0;",
     close     |-> "+}",
     one_baz   |-> "+static inline int baz(void) { return 0; }",
     one_qux   |-> "+static inline int qux(void) { return 1; }",
     plus      |-> "+ x = 1;",
     minus     |-> "- x = 0;",
     ctx_close |-> " }",
     ctx_sig   |-> " int old(void)",
     ctx_open  |-> " {",
     empty     |-> ""]

HunkBlock ==
    [new_foo  |-> <<HunkLine.sig_foo, HunkLine.open, HunkLine.stmt, HunkLine.close>>,
     new_bar  |-> <<HunkLine.sig_bar, HunkLine.stmt, HunkLine.close>>,
     new_get  |-> <<HunkLine.type_only, HunkLine.name_get, HunkLine.open,
                    HunkLine.close>>,
     unclosed |-> <<HunkLine.sig_bar, HunkLine.stmt>>,
     ctx_func |-> <<HunkLine.ctx_sig, HunkLine.ctx_open>>,
     one_baz  |-> <<HunkLine.one_baz>>,
     one_qux  |-> <<HunkLine.one_qux>>]

SplitBlockPool ==
    {HunkBlock[k] : k \in DOMAIN HunkBlock}
    \cup {<<HunkLine.plus>>, <<HunkLine.minus>>, <<HunkLine.ctx_close>>,
          <<HunkLine.empty>>}

\* what the code reads off a line of the pool:
\*   added         line.startswith("+")
\*   modified      line.startswith(("+", "-")); the pool has no "+++", "---"
\*   counts_braces line.startswith("+") or line.startswith(" ") (1189)
\*   opens, closes the number of "{" and of "}" in the line (1192-1197)
\*   added_def     the name matched by func_def_patterns (1145-1168): both
\*                 patterns match to the end of the line and the first
\*                 refuses a ";" after the "("
\*   bare_call     re.match(r"^\+\s*(\w+)\s*\(", line) (1176)
\*   type_word     re.search(r"(?:static|int|void|...)\s*$", prev) (1178)
\*   body_def      find_changed_function_in_hunk 1226-1254 and 1287: the name
\*                 read off a line that starts at column 0, has a "(" and is
\*                 no comment, label, closing brace or control-flow statement
\*   continuation  indented, or ends with , ( ) (1276-1280)
LineInfo(line) ==
    LET L == HunkLine
        added == line \in {L.sig_foo, L.sig_bar, L.type_only, L.name_get, L.open,
                           L.stmt, L.close, L.one_baz, L.one_qux, L.plus}
    IN [added         |-> added,
        modified      |-> added \/ line = L.minus,
        counts_braces |-> added \/ line \in {L.ctx_close, L.ctx_sig, L.ctx_open},
        opens         |-> IF line \in {L.sig_bar, L.open, L.one_baz, L.one_qux,
                                       L.ctx_open} THEN 1 ELSE 0,
        closes        |-> IF line \in {L.close, L.one_baz, L.one_qux, L.ctx_close}
                          THEN 1 ELSE 0,
        added_def     |-> IF line = L.sig_foo THEN "foo"
                          ELSE IF line = L.sig_bar THEN "bar" ELSE NoName,
        bare_call     |-> IF line = L.name_get THEN "get" ELSE NoName,
        type_word     |-> line = L.type_only,
        body_def      |-> IF line = L.sig_foo THEN "foo"
                          ELSE IF line = L.sig_bar THEN "bar"
                          ELSE IF line = L.name_get THEN "get"
                          ELSE IF line = L.one_baz THEN "baz"
                          ELSE IF line = L.one_qux THEN "qux"
                          ELSE IF line = L.ctx_sig THEN "old"
                          ELSE NoName,
        continuation  |-> line \in {L.sig_foo, L.name_get, L.stmt, L.plus,
                                    L.minus, L.ctx_sig}]

\* find_function_definitions_in_hunk 1162-1180
FuncNameAt(hunk_lines, i) ==
    IF LineInfo(hunk_lines[i]).added_def # NoName
    THEN LineInfo(hunk_lines[i]).added_def
    ELSE IF /\ i > 1
            /\ LineInfo(hunk_lines[i]).bare_call # NoName
            /\ LineInfo(hunk_lines[i - 1]).added
            /\ LineInfo(hunk_lines[i - 1]).type_word
    THEN LineInfo(hunk_lines[i]).bare_call
    ELSE NoName

\* find_function_definitions_in_hunk 1184-1200: end_idx stays at the start
\* when the braces never close
RECURSIVE ScanBraces(_, _, _, _, _)
ScanBraces(hunk_lines, j, brace_depth, found_opening_brace, start_idx) ==
    IF j > Len(hunk_lines)
    THEN [found |-> found_opening_brace, end_idx |-> start_idx]
    ELSE IF LineInfo(hunk_lines[j]).counts_braces
    THEN LET depth == brace_depth + LineInfo(hunk_lines[j]).opens
                                  - LineInfo(hunk_lines[j]).closes
             found == found_opening_brace \/ LineInfo(hunk_lines[j]).opens > 0
         IN IF found /\ depth = 0
            THEN [found |-> TRUE, end_idx |-> j]
            ELSE ScanBraces(hunk_lines, j + 1, depth, found, start_idx)
    ELSE ScanBraces(hunk_lines, j + 1, brace_depth, found_opening_brace,
                    start_idx)

\* find_function_definitions_in_hunk 1136-1210: the definitions found from
\* line i on
RECURSIVE find_function_definitions_in_hunk(_, _)
find_function_definitions_in_hunk(hunk_lines, i) ==
    IF i > Len(hunk_lines) THEN <<>>
    ELSE IF ~LineInfo(hunk_lines[i]).added THEN find_function_definitions_in_hunk(hunk_lines, i + 1)
    ELSE LET func_name == FuncNameAt(hunk_lines, i)
             scan == ScanBraces(hunk_lines, i, 0, FALSE, i)
         IN IF func_name # NoName /\ scan.found
            THEN <<[func_name |-> func_name, start_idx |-> i,
                    end_idx |-> scan.end_idx]>>
                 \o find_function_definitions_in_hunk(hunk_lines, scan.end_idx + 1)
            ELSE find_function_definitions_in_hunk(hunk_lines, i + 1)

\* find_changed_function_in_hunk 1257-1282
RECURSIVE BraceAhead(_, _, _)
BraceAhead(hunk_lines, j, last) ==
    IF j > last THEN FALSE
    ELSE IF hunk_lines[j] = HunkLine.empty THEN BraceAhead(hunk_lines, j + 1, last)
    ELSE IF LineInfo(hunk_lines[j]).opens > 0 THEN TRUE
    ELSE IF LineInfo(hunk_lines[j]).continuation THEN BraceAhead(hunk_lines, j + 1, last)
    ELSE FALSE

HasModifications(hunk_lines, first, last) ==
    \E j \in first..last : LineInfo(hunk_lines[j]).modified

\* the scan without the test of 1299-1305 for modifications after the
\* definition
RECURSIVE find_changed_function_in_hunk_AnyDefinition(_, _)
find_changed_function_in_hunk_AnyDefinition(hunk_lines, i) ==
    IF i > Len(hunk_lines) THEN None
    ELSE IF LineInfo(hunk_lines[i]).body_def = NoName
    THEN find_changed_function_in_hunk_AnyDefinition(hunk_lines, i + 1)
    ELSE IF ~(\/ LineInfo(hunk_lines[i]).opens > 0
              \/ BraceAhead(hunk_lines, i + 1, Min(Len(hunk_lines), i + 19)))
    THEN find_changed_function_in_hunk_AnyDefinition(hunk_lines, i + 1)
    ELSE [func_name |-> LineInfo(hunk_lines[i]).body_def, line |-> i]

\* find_changed_function_in_hunk 1213-1307: the scan from line i on
RECURSIVE find_changed_function_in_hunk(_, _)
find_changed_function_in_hunk(hunk_lines, i) ==
    IF i > Len(hunk_lines) THEN None
    ELSE IF LineInfo(hunk_lines[i]).body_def = NoName
    THEN find_changed_function_in_hunk(hunk_lines, i + 1)
    ELSE IF ~(\/ LineInfo(hunk_lines[i]).opens > 0
              \/ BraceAhead(hunk_lines, i + 1, Min(Len(hunk_lines), i + 19)))
    THEN find_changed_function_in_hunk(hunk_lines, i + 1)
    ELSE IF HasModifications(hunk_lines, i + 1, Len(hunk_lines))
    THEN [func_name |-> LineInfo(hunk_lines[i]).body_def, line |-> i]
    ELSE None

\* split_hunk_by_functions.lookup_diffinfo 1317-1328
lookup_diffinfo(hunk, global, func_name) ==
    LET found == IF Truthy(global)
                 THEN FindFunctionInfo(global.modified_functions, func_name).value
                 ELSE None
    IN IF found # None THEN found ELSE hunk.diffinfo

\* hunk.header + "\n" + "\n".join(hunk.lines[first - 1:last])
Content(header, first, last) ==
    [header |-> header, lines |-> [k \in 1..(last - first + 1) |-> first + k - 1]]

SegmentTuple(func_name, hunk_header, hunk_content, is_new_function, info) ==
    [func_name |-> func_name, hunk_header |-> hunk_header,
     hunk_content |-> hunk_content, is_new_function |-> is_new_function,
     diffinfo |-> info]

\* a segment header: the hunk's own header (within_func empty), or
\* f"@@ (within {...}) @@ {func_name}" (1387)
OwnHeader(header) == [marker |-> header, within_func |-> NoName]
WithinHeader(header, func_name) == [marker |-> header, within_func |-> func_name]

\* split_hunk_by_functions 1381-1393
RECURSIVE NewFunctionSegmentsOf(_, _, _)
NewFunctionSegmentsOf(hunk, global, functions) ==
    IF functions = <<>> THEN <<>>
    ELSE LET f == Head(functions)
             new_header == WithinHeader(hunk.header, f.func_name)
         IN <<SegmentTuple(f.func_name, new_header,
                           Content(new_header, f.start_idx, f.end_idx), TRUE,
                           lookup_diffinfo(hunk, global, f.func_name))>>
            \o NewFunctionSegmentsOf(hunk, global, Tail(functions))

\* split_hunk_by_functions 1330-1395
split_hunk_by_functions(hunk, global) ==
    LET functions == find_function_definitions_in_hunk(hunk.lines, 1)
        n == Len(hunk.lines)
        own == OwnHeader(hunk.header)
        whole == Content(own, 1, n)
        header_func == extract_function_from_context(hunk.function_context)
        body_result == find_changed_function_in_hunk(hunk.lines, 1)
    IN IF Len(functions) = 0
       THEN IF body_result # None
            THEN IF HasModifications(hunk.lines, 1, body_result.line - 1)
                 THEN <<SegmentTuple(header_func, own,
                            Content(own, 1, body_result.line - 1), FALSE,
                            IF header_func # "unknown"
                            THEN lookup_diffinfo(hunk, global, header_func)
                            ELSE hunk.diffinfo),
                        SegmentTuple(body_result.func_name, own,
                            Content(own, body_result.line, n), FALSE,
                            lookup_diffinfo(hunk, global, body_result.func_name))>>
                 ELSE <<SegmentTuple(body_result.func_name, own, whole,
                            FALSE,
                            lookup_diffinfo(hunk, global, body_result.func_name))>>
            ELSE <<SegmentTuple(header_func, own, whole, FALSE,
                       IF header_func # "unknown"
                       THEN lookup_diffinfo(hunk, global, header_func)
                       ELSE hunk.diffinfo)>>
       ELSE IF Len(functions) = 1
       THEN <<SegmentTuple(functions[1].func_name, own, whole, TRUE,
                  lookup_diffinfo(hunk, global, functions[1].func_name))>>
       ELSE NewFunctionSegmentsOf(hunk, global, functions)

\* a Hunk as parse_diff builds it (1076-1085)
HunkOf(header, hunk_lines, global) ==
    [header |-> header,
     function_context |-> MatchHunkMarker(header).function_context,
     lines |-> hunk_lines,
     diffinfo |-> HunkDiffinfo(global, MatchHunkMarker(header).function_context).value]

HunkPool(global) ==
    {HunkOf(header, Flatten(b), global) :
        header \in {DiffLine.hunk_func, DiffLine.hunk_plain},
        b \in UNION {[1..n -> SplitBlockPool] : n \in 0..MaxSplitBlocks}}

\* main 1675-1679
InitSplit ==
    /\ global_diffinfo \in {None, AnalyzerOutput.well_formed}
    /\ split_hunk \in HunkPool(global_diffinfo)
    /\ split_segments = <<>>
    /\ spc = "split"
    /\ GroupIdle
    /\ AggIdle
    /\ ParseIdle
    /\ FallbackIdle
    /\ EndIdle
    /\ DefinitionIdle
    /\ XargsIdle

\* main 1679
SplitHunkByFunctions ==
    /\ spc = "split"
    /\ split_segments' = split_hunk_by_functions(split_hunk, global_diffinfo)
    /\ spc' = "done"
    /\ UNCHANGED <<split_hunk, global_diffinfo>>
    /\ UNCHANGED <<groupVars, aggVars, parseVars, fallbackVars,
                 endVars, definitionVars, xargsVars>>

NextSplit == SplitHunkByFunctions

SpecSplit == InitSplit /\ [][NextSplit]_vars

(***************************************************************************)
(* Segmentation followed by aggregation: main 1675-1787 on one hunk of     *)
(* file 1.  The aggregator's three numbers are counted on the content of   *)
(* each segment.                                                           *)
(***************************************************************************)
\* count_added_lines 86-92: no line of the pool starts with "++", and the
\* header line starts with "@@"
count_added_lines(hunk_lines, hunk_content) ==
    Cardinality({k \in 1..Len(hunk_content.lines) :
                    LineInfo(hunk_lines[hunk_content.lines[k]]).added})

\* the lines of header + "\n" + "\n".join(lines): joining no line gives the
\* empty string, which is one line after the header
ContentLineCount(hunk_content) ==
    1 + (IF Len(hunk_content.lines) = 0 THEN 1 ELSE Len(hunk_content.lines))

\* count_total_lines 95-98: rstrip() removes the empty lines at the end; the
\* header and every other line of the pool hold a character that is no
\* white space
count_total_lines(hunk_lines, hunk_content) ==
    LET last == {k \in 1..Len(hunk_content.lines) :
                    /\ hunk_lines[hunk_content.lines[k]] # HunkLine.empty
                    /\ \A m \in (k + 1)..Len(hunk_content.lines) :
                          hunk_lines[hunk_content.lines[m]] = HunkLine.empty}
    IN IF last = {} THEN 1 ELSE 1 + (CHOOSE k \in last : TRUE)

\* main 1681-1691: what the aggregator keeps of one segment
CollectedSegment(hunk, seg) ==
    Segment(1, seg.func_name, seg.is_new_function,
            count_added_lines(hunk.lines, seg.hunk_content),
            count_total_lines(hunk.lines, seg.hunk_content),
            ContentLineCount(seg.hunk_content)
                - count_total_lines(hunk.lines, seg.hunk_content),
            seg.diffinfo)

\* main 1681-1691
CollectSegments ==
    /\ spc = "done"
    /\ apc = "idle"
    /\ segments' = [k \in 1..Len(split_segments) |->
                      CollectedSegment(split_hunk, split_segments[k])]
    /\ apc' = "modifications"
    /\ UNCHANGED <<groupVars, parseVars, splitVars, fallbackVars,
                 endVars, definitionVars, xargsVars>>

NextPipeline ==
    \/ SplitHunkByFunctions
    \/ CollectSegments
    \/ ProcessModifications
    \/ ProcessNewFunctions

SpecPipeline == InitSplit /\ [][NextPipeline]_vars

\* the blocks of the pool that are one new top-level function with balanced
\* braces
NewFunctionBlocks ==
    {HunkBlock.new_foo, HunkBlock.new_bar, HunkBlock.new_get, HunkBlock.one_baz,
     HunkBlock.one_qux}

TwoNewFunctionBodies(hunk_lines) ==
    \E b1 \in NewFunctionBlocks, b2 \in NewFunctionBlocks :
        b1 # b2 /\ hunk_lines = b1 \o b2

\* C7 as stated: a hunk whose added lines are two independent new top-level
\* function bodies with balanced braces is split into exactly two segments,
\* both flagged is_new_function, with disjoint line spans.
C7_TwoNewFunctionsTwoSegments ==
    (spc = "done" /\ TwoNewFunctionBodies(split_hunk.lines)) =>
        /\ Len(split_segments) = 2
        /\ split_segments[1].is_new_function
        /\ split_segments[2].is_new_function
        /\ SeqRange(split_segments[1].hunk_content.lines)
              \cap SeqRange(split_segments[2].hunk_content.lines) = {}

\* the name written in the signature of a function block of the pool
SignatureName(block) ==
    IF block = HunkBlock.new_foo THEN "foo"
    ELSE IF block = HunkBlock.new_bar THEN "bar"
    ELSE IF block = HunkBlock.new_get THEN "get"
    ELSE IF block = HunkBlock.one_baz THEN "baz"
    ELSE "qux"

\* the hunk's changed lines are the added lines of function block b alone;
\* blank and closing-brace context may surround them
OneAddedFunction(hunk_lines, b) ==
    \E pre, post \in {<<>>, <<HunkLine.ctx_close>>, <<HunkLine.empty>>,
                       <<HunkLine.ctx_close, HunkLine.empty>>} :
        hunk_lines = pre \o b \o post

\* C13 as stated: a hunk whose changed lines are only the added lines of the
\* body of one function yields exactly one Change after segmentation and
\* aggregation, and the Change's symbol is the name in the added signature.
C13_OneFunctionOneChange ==
    apc = "done" =>
        \A b \in NewFunctionBlocks :
            OneAddedFunction(split_hunk.lines, b) =>
                /\ Len(changes_by_file[1]) = 1
                /\ changes_by_file[1][1].function = <<SignatureName(b)>>

(***************************************************************************)
(* The Python fallback on code: parse_unified_diff_python 124-166,         *)
(* parse_hunk_python 169-250 and the walk-back 274-417, rendered by        *)
(* build_result_from_python.  The diff is a "+++" line of a C file, a hunk *)
(* marker and the lines below; the tests the code makes on a line are      *)
(* tables over these strings.  List indices are counted from 1.            *)
(***************************************************************************)
MaxFallbackLines == 4

FallbackLine ==
    [file       |-> "+++ b/x.c",
     ctx_sig    |-> " int old(void)",
     ctx_open   |-> " {",
     ctx_close  |-> " }",
     ctx_struct |-> " struct s {",
     add_glob   |-> "+int y;",
     add_init   |-> "+module_init(old);",
     add_bar    |-> "+\tbar(1);",
     del_baz    |-> "-\tbaz(3);",
     add_self   |-> "+\tif (old(2))",
     add_macro  |-> "+#define M(x) bar(x)",
     empty      |-> ""]

\* the code of the lines above: line[1:]
CodeLine ==
    [sig   |-> "int old(void)",
     open  |-> "{",
     close |-> "}",
     strct |-> "struct s {",
     glob  |-> "int y;",
     init  |-> "module_init(old);",
     bar   |-> "\tbar(1);",
     baz   |-> "\tbaz(3);",
     self  |-> "\tif (old(2))",
     macro |-> "#define M(x) bar(x)",
     blank |-> ""]

\* parse_hunk_python 189-214: what a line of the diff is, and its code
DiffLineParts(line) ==
    LET L == FallbackLine
        C == CodeLine
    IN IF line = L.file THEN [kind |-> "file", content |-> C.blank]
       ELSE IF line \in {DiffLine.hunk_func, DiffLine.hunk_plain}
       THEN [kind |-> "marker", content |-> C.blank]
       ELSE IF line = L.ctx_sig THEN [kind |-> "context", content |-> C.sig]
       ELSE IF line = L.ctx_open THEN [kind |-> "context", content |-> C.open]
       ELSE IF line = L.ctx_close THEN [kind |-> "context", content |-> C.close]
       ELSE IF line = L.ctx_struct THEN [kind |-> "context", content |-> C.strct]
       ELSE IF line = L.add_glob THEN [kind |-> "added", content |-> C.glob]
       ELSE IF line = L.add_init THEN [kind |-> "added", content |-> C.init]
       ELSE IF line = L.add_bar THEN [kind |-> "added", content |-> C.bar]
       ELSE IF line = L.del_baz THEN [kind |-> "removed", content |-> C.baz]
       ELSE IF line = L.add_self THEN [kind |-> "added", content |-> C.self]
       ELSE IF line = L.add_macro THEN [kind |-> "added", content |-> C.macro]
       ELSE [kind |-> "context", content |-> C.blank]

\* what the walk-back reads off a line of code:
\*   trimmed        line.strip()
\*   skipped        empty or a comment (306-308); no line of the pool is a
\*                  label or a case (is_false_positive_python 338-355)
\*   func_candidate is_function_definition_python 358-378: at most one
\*                  leading blank, a "(", no preprocessor line or comment,
\*                  no control-flow keyword before the "("
\*   has_brace      "{" in line (385, 393)
\*   continuation   indented, or ends with , ( ) (406-411)
\*   indented       line[0].isspace() (329)
\*   type_def       is_type_definition_python 420-428
\*   define         trimmed.startswith("#define ") (297, 323); no line of the
\*                  pool is a one-line typedef (293)
\*   matches        extract_function_calls_python 259-266: the names the
\*                  pattern finds before a "(", none on a "#" line
CodeInfo(content) ==
    LET C == CodeLine
    IN [trimmed        |-> IF content = C.bar THEN "bar(1);"
                           ELSE IF content = C.baz THEN "baz(3);"
                           ELSE IF content = C.self THEN "if (old(2))"
                           ELSE content,
        skipped        |-> content = C.blank,
        func_candidate |-> content \in {C.sig, C.init, C.bar, C.baz},
        has_brace      |-> content \in {C.open, C.strct},
        continuation   |-> content \in {C.sig, C.bar, C.baz, C.self, C.macro},
        indented       |-> content \in {C.bar, C.baz, C.self},
        type_def       |-> content = C.strct,
        define         |-> content = C.macro,
        matches        |-> IF content = C.sig THEN {"old"}
                           ELSE IF content = C.self THEN {"if", "old"}
                           ELSE IF content = C.init THEN {"module_init"}
                           ELSE IF content = C.bar THEN {"bar"}
                           ELSE IF content = C.baz THEN {"baz"}
                           ELSE {}]

\* C_KEYWORDS 652-659
C_KEYWORDS ==
    {"if", "else", "for", "while", "do", "switch", "case", "default",
     "return", "break", "continue", "goto", "sizeof", "typeof",
     "int", "char", "float", "double", "void", "long", "short",
     "signed", "unsigned", "const", "static", "extern", "inline",
     "struct", "union", "enum", "typedef", "auto", "register", "volatile",
     "__attribute__", "__always_inline", "noinline", "bool", "_Bool"}

extract_function_calls_python_Unfiltered(content) == CodeInfo(content).matches

\* extract_function_calls_python 253-271
extract_function_calls_python(content) ==
    {name \in CodeInfo(content).matches : name \notin C_KEYWORDS}

\* extract_symbol_name_from_declaration_python 431-497 on the lines the
\* walk-back can return
extract_symbol_name_from_declaration_python(decl_line) ==
    IF decl_line = "int old(void)" THEN "old()"
    ELSE IF decl_line = "module_init(old);" THEN "module_init()"
    ELSE IF decl_line = "bar(1);" THEN "bar()"
    ELSE IF decl_line = "struct s {" THEN "struct s"
    ELSE IF decl_line = "#define M(x) bar(x)" THEN "#M"
    ELSE NoName

\* extract_function_name_from_symbol_python 500-518 on the same lines
extract_function_name_from_symbol_python(symbol) ==
    IF symbol = "int old(void)" THEN "old"
    ELSE IF symbol = "module_init(old);" THEN "module_init"
    ELSE IF symbol = "bar(1);" THEN "bar"
    ELSE IF symbol = "#define M(x) bar(x)" THEN "M"
    ELSE NoName

\* is_function_definition_python 387-415: the search for the opening brace
RECURSIVE BraceFollows(_, _, _)
BraceFollows(lines, j, last) ==
    IF j > last THEN FALSE
    ELSE IF CodeInfo(lines[j]).has_brace THEN TRUE
    ELSE IF CodeInfo(lines[j]).skipped THEN BraceFollows(lines, j + 1, last)
    ELSE IF CodeInfo(lines[j]).continuation THEN BraceFollows(lines, j + 1, last)
    ELSE FALSE

\* is_function_definition_python 358-417
is_function_definition_python(lines, line_idx) ==
    /\ CodeInfo(lines[line_idx]).func_candidate
    /\ \/ CodeInfo(lines[line_idx]).has_brace
       \/ BraceFollows(lines, line_idx + 1, Min(Len(lines), line_idx + 19))

\* find_symbol_for_line_python 300-335: the loop from line i down to line
\* low; the index of the line returned, 0 for None.  The test of line 329
\* ends the loop body: for an indented line and for any other line the loop
\* goes on with the line above.
RECURSIVE WalkBack(_, _, _)
WalkBack(lines, i, low) ==
    IF i < low THEN 0
    ELSE IF CodeInfo(lines[i]).skipped THEN WalkBack(lines, i - 1, low)
    ELSE IF is_function_definition_python(lines, i) THEN i
    ELSE IF CodeInfo(lines[i]).type_def THEN i
    ELSE IF CodeInfo(lines[i]).define THEN i
    ELSE IF CodeInfo(lines[i]).indented THEN WalkBack(lines, i - 1, low)
    ELSE WalkBack(lines, i - 1, low)

\* find_symbol_for_line_python 286-335: the index of the line it returns
SymbolLineFor(lines, line_idx) ==
    IF line_idx > Len(lines) THEN 0
    ELSE IF CodeInfo(lines[line_idx]).define THEN line_idx
    ELSE WalkBack(lines, line_idx, IF line_idx > 50 THEN line_idx - 50 ELSE 1)

find_symbol_for_line_python(lines, line_idx) ==
    IF SymbolLineFor(lines, line_idx) = 0 THEN NoName
    ELSE CodeInfo(lines[SymbolLineFor(lines, line_idx)]).trimmed

\* extract_symbols_by_walkback_python 274-285
extract_symbols_by_walkback_python(lines, modified_lines) ==
    {extract_symbol_name_from_declaration_python(
         find_symbol_for_line_python(lines, m)) : m \in modified_lines} \ {NoName}

\* parse_hunk_python 183-214: the loop over the lines below the marker;
\* line_to_calls keeps the indices of the added lines that hold a call
RECURSIVE CollectHunk(_, _, _)
CollectHunk(lines, i, st) ==
    IF i > Len(lines) THEN st
    ELSE LET part == DiffLineParts(lines[i])
             current_line == Len(st.hunk_lines) + 1
             line_calls == extract_function_calls_python(part.content)
         IN IF part.kind \in {"marker", "file"} THEN st
            ELSE IF part.kind = "added"
            THEN CollectHunk(lines, i + 1,
                     [hunk_lines |-> Append(st.hunk_lines, part.content),
                      modified_line_indices |->
                          st.modified_line_indices \cup {current_line},
                      line_to_calls |->
                          IF line_calls # {}
                          THEN st.line_to_calls \cup {current_line}
                          ELSE st.line_to_calls,
                      called_functions |-> st.called_functions \cup line_calls])
            ELSE IF part.kind = "removed"
            THEN CollectHunk(lines, i + 1,
                     [st EXCEPT
                        !.modified_line_indices = @ \cup {current_line},
                        !.called_functions = @ \cup line_calls])
            ELSE CollectHunk(lines, i + 1,
                     [st EXCEPT !.hunk_lines = Append(@, part.content)])

\* parse_hunk_python 230-248: the function one line's calls go to, and the
\* calls that go there
AttributedCalls(hunk_lines, line_idx, header_func_name) ==
    LET calls == extract_function_calls_python(hunk_lines[line_idx])
        containing_func == find_symbol_for_line_python(hunk_lines, line_idx)
        func_name == extract_function_name_from_symbol_python(containing_func)
    IN IF containing_func # NoName
       THEN IF func_name # NoName
            THEN [func_name |-> func_name, calls |-> calls \ {func_name}]
            ELSE [func_name |-> NoName, calls |-> {}]
       ELSE IF header_func_name # NoName
       THEN [func_name |-> header_func_name,
             calls |-> calls \ {header_func_name}]
       ELSE [func_name |-> NoName, calls |-> {}]

\* parse_hunk_python 219-228: "#NAME" is a macro, "name()" a function, and
\* a symbol that starts with struct, union, enum or typedef a type
SymbolParts(symbol) ==
    IF symbol = "#M" THEN [kind |-> "macro", name |-> "M"]
    ELSE IF symbol = "struct s" THEN [kind |-> "type", name |-> "struct s"]
    ELSE IF symbol = "old()" THEN [kind |-> "function", name |-> "old"]
    ELSE IF symbol = "module_init()" THEN [kind |-> "function", name |-> "module_init"]
    ELSE [kind |-> "function", name |-> "bar"]

\* parse_hunk_python 169-250
parse_hunk_python(lines, hunk_start) ==
    LET header_func_name == extract_function_from_hunk_header(lines[hunk_start])
        st == CollectHunk(lines, hunk_start + 1,
                  [hunk_lines |-> <<>>, modified_line_indices |-> {},
                   line_to_calls |-> {}, called_functions |-> {}])
        symbols == IF st.hunk_lines # <<>>
                   THEN extract_symbols_by_walkback_python(
                            st.hunk_lines, st.modified_line_indices)
                   ELSE {}
    IN DiffParseResult(
         (IF header_func_name # NoName THEN {header_func_name} ELSE {})
             \cup {SymbolParts(sym).name :
                      sym \in {x \in symbols : SymbolParts(x).kind = "function"}},
         st.called_functions,
         {SymbolParts(sym).name :
             sym \in {x \in symbols : SymbolParts(x).kind = "type"}},
         {SymbolParts(sym).name :
             sym \in {x \in symbols : SymbolParts(x).kind = "macro"}},
         [n \in SeqRange(SymbolNames) |->
             UNION {AttributedCalls(st.hunk_lines, k, header_func_name).calls :
                       k \in {m \in st.line_to_calls :
                                 AttributedCalls(st.hunk_lines, m,
                                     header_func_name).func_name = n}}])

\* parse_unified_diff_python 143-152: merge one hunk's result
MergeHunkResult(result, hunk_result) ==
    DiffParseResult(
        result.modified_functions \cup hunk_result.modified_functions,
        result.called_functions \cup hunk_result.called_functions,
        result.modified_types \cup hunk_result.modified_types,
        result.modified_macros \cup hunk_result.modified_macros,
        [n \in SeqRange(SymbolNames) |->
            result.function_calls[n] \cup hunk_result.function_calls[n]])

\* parse_unified_diff_python 153-156: the first line from i on that starts
\* with "@@", "---" or "+++"
RECURSIVE EndOfHunk(_, _)
EndOfHunk(lines, i) ==
    IF i > Len(lines) THEN i
    ELSE IF DiffLineParts(lines[i]).kind \in {"marker", "file"} THEN i
    ELSE EndOfHunk(lines, i + 1)

\* parse_unified_diff_python 131-164: the outer loop (in_file false) and the
\* loop over the hunks of a C file (in_file true), from line i on
RECURSIVE ScanDiff(_, _, _, _)
ScanDiff(lines, i, in_file, result) ==
    IF i > Len(lines) THEN result
    ELSE IF ~in_file
    THEN ScanDiff(lines, i + 1, DiffLineParts(lines[i]).kind = "file", result)
    ELSE IF DiffLineParts(lines[i]).kind = "marker"
    THEN ScanDiff(lines, EndOfHunk(lines, i + 1), TRUE,
                  MergeHunkResult(result, parse_hunk_python(lines, i)))
    ELSE IF DiffLineParts(lines[i]).kind = "file"
    THEN ScanDiff(lines, i, FALSE, result)
    ELSE ScanDiff(lines, i + 1, TRUE, result)

\* parse_unified_diff_python 124-166
parse_unified_diff_python(lines) ==
    ScanDiff(lines, 1, FALSE, DiffParseResult({}, {}, {}, {}, NoCalls))

FallbackBodyPool ==
    {FallbackLine[k] : k \in DOMAIN FallbackLine \ {"file"}}
    \cup {DiffLine.hunk_func}

\* the diffs: the "+++" line of a C file, a hunk marker, and the lines below
FallbackDiffs ==
    {<<FallbackLine.file, marker>> \o body :
        marker \in {DiffLine.hunk_func, DiffLine.hunk_plain},
        body \in UNION {[1..n -> FallbackBodyPool] : n \in 0..MaxFallbackLines}}

InitFallback ==
    /\ diff_content \in FallbackDiffs
    /\ py_result = None
    /\ py_table = None
    /\ fpc = "parse"
    /\ GroupIdle
    /\ AggIdle
    /\ ParseIdle
    /\ SplitIdle
    /\ EndIdle
    /\ DefinitionIdle
    /\ XargsIdle

\* run_semcode_diffinfo 589-592: result = parse_unified_diff_python(diff_text)
ParseUnifiedDiffPython ==
    /\ fpc = "parse"
    /\ py_result' = parse_unified_diff_python(diff_content)
    /\ fpc' = "build"
    /\ UNCHANGED <<diff_content, py_table>>
    /\ UNCHANGED <<groupVars, aggVars, parseVars, splitVars,
                 endVars, definitionVars, xargsVars>>

\* run_semcode_diffinfo 592: return build_result_from_python(result)
BuildResultFromPython ==
    /\ fpc = "build"
    /\ py_table' = build_result_from_python(py_result)
    /\ fpc' = "done"
    /\ UNCHANGED <<diff_content, py_result>>
    /\ UNCHANGED <<groupVars, aggVars, parseVars, splitVars,
                 endVars, definitionVars, xargsVars>>

NextFallback ==
    \/ ParseUnifiedDiffPython
    \/ BuildResultFromPython

SpecFallback == InitFallback /\ [][NextFallback]_vars

\* the positions of the hunk markers in the diff
HunkStarts == {h \in 1..Len(diff_content) :
                  DiffLineParts(diff_content[h]).kind = "marker"}

\* what parse_hunk_python collects of the hunk whose marker is line h
HunkAt(h) ==
    CollectHunk(diff_content, h + 1,
                [hunk_lines |-> <<>>, modified_line_indices |-> {},
                 line_to_calls |-> {}, called_functions |-> {}])

\* line j of the code is not blank, not indented, and accepted neither as a
\* function, a type nor a macro definition
UnrelatedTopLevel(lines, j) ==
    /\ ~CodeInfo(lines[j]).skipped
    /\ ~CodeInfo(lines[j]).indented
    /\ ~is_function_definition_python(lines, j)
    /\ ~CodeInfo(lines[j]).type_def
    /\ ~CodeInfo(lines[j]).define

\* C16 as stated: when the walk back from a changed line reaches a line that
\* is not blank, not a comment, not indented and no function, type or macro
\* definition, the search stops with no symbol: a definition above such a
\* line is never returned for the changed line.
C16_StopsAtUnrelatedTopLevelLine ==
    fpc = "done" =>
        \A h \in HunkStarts :
            \A m \in HunkAt(h).modified_line_indices :
                \A j \in 1..Len(HunkAt(h).hunk_lines) :
                    (j <= m /\ UnrelatedTopLevel(HunkAt(h).hunk_lines, j))
                    => SymbolLineFor(HunkAt(h).hunk_lines, m) \notin 1..(j - 1)

\* the changed lines of the hunk whose marker is line h: the positions i in
\* the diff of its added and removed lines
ChangedLines(h) ==
    {i \in (h + 1)..(EndOfHunk(diff_content, h + 1) - 1) :
        DiffLineParts(diff_content[i]).kind \in {"added", "removed"}}

\* the number of code lines (context and added) of the hunk of marker h that
\* stand above line i of the diff
CodeLinesAbove(h, i) ==
    Cardinality({k \in (h + 1)..(i - 1) :
                    DiffLineParts(diff_content[k]).kind \in {"added", "context"}})

\* the function that encloses line i of the diff, found by walking back in
\* the code of the hunk from line i itself when it is an added line, from
\* the line above it when it is a removed line; no_function tells that the
\* walk ended at a type or a macro
EnclosingFunction(h, i) ==
    LET lines == HunkAt(h).hunk_lines
        from == IF DiffLineParts(diff_content[i]).kind = "added"
                THEN CodeLinesAbove(h, i) + 1
                ELSE CodeLinesAbove(h, i)
        symbol == IF from = 0 THEN NoName
                  ELSE find_symbol_for_line_python(lines, from)
    IN [found |-> symbol # NoName,
        func_name |-> extract_function_name_from_symbol_python(symbol)]

\* C17 as stated: the calls on every added and every removed line of a hunk
\* are listed, in the per-function call table, under the function found by
\* walking back from the line, or under the function of the hunk header
\* when the walk finds no symbol; they are missing only when neither gives
\* a name (a call of the function to itself is no call site).
C17_ChangedLineCallsAttributed ==
    fpc = "done" =>
        \A h \in HunkStarts :
            \A i \in ChangedLines(h) :
                LET calls == extract_function_calls_python(
                                 DiffLineParts(diff_content[i]).content)
                    enclosing == EnclosingFunction(h, i)
                    target == IF enclosing.found THEN enclosing.func_name
                              ELSE extract_function_from_hunk_header(diff_content[h])
                IN target # NoName =>
                      (calls \ {target}) \subseteq py_result.function_calls[target]

\* C18: in the call table of the Python fallback, as merged over the hunks
\* of the diff and as rendered, no function is listed among its own calls
\* and no name of C_KEYWORDS is listed as a call.
C18_NoSelfNoKeywordCalls ==
    /\ fpc \in {"build", "done"} =>
           \A name \in DOMAIN py_result.function_calls :
               /\ name \notin py_result.function_calls[name]
               /\ py_result.function_calls[name] \cap C_KEYWORDS = {}
    /\ fpc = "done" =>
           \A k \in 1..Len(py_table.modified_functions) :
               LET info == py_table.modified_functions[k]
               IN /\ info.name \notin SeqRange(info.calls)
                  /\ SeqRange(info.calls) \cap C_KEYWORDS = {}

\* a changed line on which the pattern finds a keyword and the name of the
\* enclosing function itself, whose other calls the rendered table lists
C18_Witness ==
    /\ fpc = "done"
    /\ \E h \in HunkStarts :
           \E i \in ChangedLines(h) :
               LET matches == CodeInfo(DiffLineParts(diff_content[i]).content).matches
                   enclosing == EnclosingFunction(h, i)
               IN /\ enclosing.found
                  /\ enclosing.func_name \in matches
                  /\ matches \cap C_KEYWORDS # {}
                  /\ \E k \in 1..Len(py_table.modified_functions) :
                         /\ py_table.modified_functions[k].name = enclosing.func_name
                         /\ py_table.modified_functions[k].calls # <<>>

(***************************************************************************)
(* Properties of the hunk splitter on a hunk without new-function span.    *)
(***************************************************************************)
\* line k of the hunk is a top-level definition line (1226-1289) whose
\* function is not the function of the hunk header
BodyDefinitionAt(k) ==
    /\ k \in 1..Len(split_hunk.lines)
    /\ LineInfo(split_hunk.lines[k]).body_def # NoName
    /\ \/ LineInfo(split_hunk.lines[k]).opens > 0
       \/ BraceAhead(split_hunk.lines, k + 1, Min(Len(split_hunk.lines), k + 19))
    /\ LineInfo(split_hunk.lines[k]).body_def
           # extract_function_from_context(split_hunk.function_context)

NoNewFunctionSpan == find_function_definitions_in_hunk(split_hunk.lines, 1) = <<>>

ChangedBefore(k) == HasModifications(split_hunk.lines, 1, k - 1)
ChangedAfter(k) == HasModifications(split_hunk.lines, k + 1, Len(split_hunk.lines))

\* the hunk lines first..last, in order, under the hunk's own header
LinesOf(segment, first, last) ==
    /\ segment.hunk_header = OwnHeader(split_hunk.header)
    /\ segment.hunk_content.header = OwnHeader(split_hunk.header)
    /\ segment.hunk_content.lines = [j \in 1..(last - first + 1) |-> first + j - 1]

TwoSegmentsAt(k) ==
    /\ Len(split_segments) = 2
    /\ split_segments[1].func_name
           = extract_function_from_context(split_hunk.function_context)
    /\ ~split_segments[1].is_new_function
    /\ LinesOf(split_segments[1], 1, k - 1)
    /\ split_segments[2].func_name = LineInfo(split_hunk.lines[k]).body_def
    /\ ~split_segments[2].is_new_function
    /\ LinesOf(split_segments[2], k, Len(split_hunk.lines))

OneSegmentUnder(func_name) ==
    /\ Len(split_segments) = 1
    /\ split_segments[1].func_name = func_name
    /\ ~split_segments[1].is_new_function
    /\ LinesOf(split_segments[1], 1, Len(split_hunk.lines))

InfosOf(c) == [k \in 1..Len(c.segments) |-> segments[c.segments[k]].diffinfo]

\* the items of one reference list of the present infos, one list after
\* the other
RECURSIVE AllItems(_, _)
AllItems(infos, key) ==
    IF infos = <<>> THEN <<>>
    ELSE (IF Head(infos) = None THEN <<>> ELSE Head(infos)[key])
         \o AllItems(Tail(infos), key)

FirstOccurrence(items, x) ==
    CHOOSE i \in 1..Len(items) :
        items[i] = x /\ \A j \in 1..(i - 1) : items[j] # x

\* out holds exactly the items of items, each once, in the order of their
\* first occurrence
IsOrderedUnion(out, items) ==
    /\ SeqRange(out) = SeqRange(items)
    /\ \A a, b \in 1..Len(out) :
           a < b => /\ out[a] # out[b]
                    /\ FirstOccurrence(items, out[a]) < FirstOccurrence(items, out[b])

\* the primary symbol of the first info that has one
FirstPrimary(infos) ==
    LET with == {k \in 1..Len(infos) :
                    infos[k] # None /\ infos[k].modifies # NoName}
    IN IF with = {} THEN NoName
       ELSE infos[CHOOSE k \in with : \A m \in with : k <= m].modifies

\* C20: the SymbolInfo of a Change is none when the infos of all its
\* segments are absent; otherwise its primary symbol is the first non-empty
\* primary symbol in list order, and each of types, calls and callers holds
\* exactly the union of the inputs' items, without duplicates, in the order
\* of first occurrence.
C20_MergeDiffinfo ==
    apc = "done" =>
        \A file \in Files :
            \A n \in 1..Len(changes_by_file[file]) :
                LET c == changes_by_file[file][n]
                    infos == InfosOf(c)
                IN IF \A k \in 1..Len(infos) : infos[k] = None
                   THEN c.diffinfo = None
                   ELSE /\ c.diffinfo # None
                        /\ c.diffinfo.modifies = FirstPrimary(infos)
                        /\ \A key \in {"types", "calls", "callers"} :
                               IsOrderedUnion(c.diffinfo[key], AllItems(infos, key))

\* C20 witness: a Change merged the infos of g and of f, in this order: its
\* primary symbol is g and its calls are h, g (g is called by both)
C20_Witness ==
    /\ apc = "done"
    /\ \E file \in Files :
           \E n \in 1..Len(changes_by_file[file]) :
               LET c == changes_by_file[file][n]
               IN /\ InfosOf(c) = <<SegmentDiffinfo.g, SegmentDiffinfo.f>>
                  /\ c.diffinfo.modifies = "g"
                  /\ c.diffinfo.calls = <<"h", "g">>
                  /\ c.diffinfo.types = <<"t">>

(***************************************************************************)
(* find_function_end 710-787 on source text.  A line is the sequence of    *)
(* its characters; the text of the file is drawn as one sequence in which  *)
(* NewLine ends a line.  (readlines keeps the "\n" at the end of a line;   *)
(* the scan tests no character against it, so the lines are held without.) *)
(***************************************************************************)
MaxSourceChars == 6

NewLine == "\n"

SourceChars == {"{", "}", "\"", "'", "\\", "/", "*"}

\* the lines of a text
RECURSIVE SourceLinesOf(_, _)
SourceLinesOf(text, line) ==
    IF text = <<>> THEN <<line>>
    ELSE IF Head(text) = NewLine
    THEN <<line>> \o SourceLinesOf(Tail(text), <<>>)
    ELSE SourceLinesOf(Tail(text), Append(line, Head(text)))

\* find_function_end 751 and 759: j > 0 and line[j - 1] == "\\"
EscapedByBackslash(line, j) == j > 1 /\ line[j - 1] = "\\"

\* find_function_end 725-783: the while loop over the characters of one
\* line, from position j on; closed tells that the loop returned i (780)
RECURSIVE ScanSourceLine(_, _, _)
ScanSourceLine(line, j, st) ==
    IF j > Len(line) THEN st
    ELSE LET char == line[j]
             next_char == IF j + 1 <= Len(line) THEN line[j + 1] ELSE ""
         IN IF st.in_line_comment THEN st
            ELSE IF st.in_block_comment
            THEN IF char = "*" /\ next_char = "/"
                 THEN ScanSourceLine(line, j + 2, [st EXCEPT !.in_block_comment = FALSE])
                 ELSE ScanSourceLine(line, j + 1, st)
            ELSE IF char = "/" /\ next_char = "/"
            THEN [st EXCEPT !.in_line_comment = TRUE]
            ELSE IF char = "/" /\ next_char = "*"
            THEN ScanSourceLine(line, j + 2, [st EXCEPT !.in_block_comment = TRUE])
            ELSE IF char = "\"" /\ ~st.in_char
            THEN IF EscapedByBackslash(line, j)
                 THEN ScanSourceLine(line, j + 1, st)
                 ELSE ScanSourceLine(line, j + 1, [st EXCEPT !.in_string = ~st.in_string])
            ELSE IF char = "'" /\ ~st.in_string
            THEN IF EscapedByBackslash(line, j)
                 THEN ScanSourceLine(line, j + 1, st)
                 ELSE ScanSourceLine(line, j + 1, [st EXCEPT !.in_char = ~st.in_char])
            ELSE IF st.in_string \/ st.in_char
            THEN ScanSourceLine(line, j + 1, st)
            ELSE IF char = "{"
            THEN ScanSourceLine(line, j + 1,
                     [st EXCEPT !.brace_depth = st.brace_depth + 1,
                                !.found_opening = TRUE])
            ELSE IF char = "}"
            THEN IF st.found_opening /\ st.brace_depth - 1 = 0
                 THEN [st EXCEPT !.brace_depth = 0, !.closed = TRUE]
                 ELSE ScanSourceLine(line, j + 1,
                          [st EXCEPT !.brace_depth = st.brace_depth - 1])
            ELSE ScanSourceLine(line, j + 1, st)

\* an index returned where the code returns Optional[int]
SomeLine(i) == [line |-> i]

\* find_function_end 723-787: the for loop from line i on (0-based)
RECURSIVE ScanSource(_, _, _, _)
ScanSource(lines, i, last, st) ==
    IF i >= last THEN None
    ELSE LET after == ScanSourceLine(lines[i + 1], 1, st)
         IN IF after.closed THEN SomeLine(i)
            ELSE ScanSource(lines, i + 1, last,
                            [after EXCEPT !.in_line_comment = FALSE])

\* find_function_end 710-787
find_function_end(lines, start) ==
    ScanSource(lines, start, Min(Len(lines), start + 2000),
               [brace_depth |-> 0, found_opening |-> FALSE, in_string |-> FALSE,
                in_char |-> FALSE, in_line_comment |-> FALSE,
                in_block_comment |-> FALSE, closed |-> FALSE])

SourceTexts ==
    UNION {[1..n -> SourceChars \cup {NewLine}] : n \in 0..MaxSourceChars}

\* get_definition_for_change 882-891: the lines of the file and the start
\* of the definition
InitFunctionEnd ==
    /\ \E text \in SourceTexts : source_lines = SourceLinesOf(text, <<>>)
    /\ start_line \in 0..1
    /\ start_line < Len(source_lines)
    /\ end_line = None
    /\ epc = "scan"
    /\ GroupIdle
    /\ AggIdle
    /\ ParseIdle
    /\ SplitIdle
    /\ FallbackIdle
    /\ DefinitionIdle
    /\ XargsIdle

\* get_definition_for_change 891: end_line = find_function_end(lines, start_line)
FindFunctionEnd ==
    /\ epc = "scan"
    /\ end_line' = find_function_end(source_lines, start_line)
    /\ epc' = "done"
    /\ UNCHANGED <<source_lines, start_line>>
    /\ UNCHANGED <<groupVars, aggVars, parseVars, splitVars, fallbackVars,
                   definitionVars, xargsVars>>

NextFunctionEnd == FindFunctionEnd

SpecFunctionEnd == InitFunctionEnd /\ [][NextFunctionEnd]_vars

(***************************************************************************)
(* What find_function_end is to return, read off the text by the rules of  *)
(* C: a literal runs from its quote to the next quote of the same kind     *)
(* that no backslash escapes, a backslash inside a literal escapes the     *)
(* character after it, a line comment runs to the end of its line and a    *)
(* block comment to the next "*/".                                         *)
(***************************************************************************)
\* the characters of lines i + 1 .. Len(lines), a NewLine after each line
RECURSIVE TextFrom(_, _)
TextFrom(lines, i) ==
    IF i >= Len(lines) THEN <<>>
    ELSE lines[i + 1] \o <<NewLine>> \o TextFrom(lines, i + 1)

\* the scan of the text from character k on; line is the index of the line
\* of character k; the result is "closed" with the line of the brace that
\* closes the first opening brace, "none" when there is no such brace, and
\* "open_literal" when a literal does not end on its line
RECURSIVE ClosingBrace(_, _, _, _, _)
ClosingBrace(text, k, line, mode, depth) ==
    IF k > Len(text) THEN [outcome |-> "none", line |-> 0]
    ELSE LET char == text[k]
             next_char == IF k + 1 <= Len(text) THEN text[k + 1] ELSE ""
             line_after == IF char = NewLine THEN line + 1 ELSE line
         IN IF mode = "line_comment"
            THEN ClosingBrace(text, k + 1, line_after,
                              IF char = NewLine THEN "code" ELSE mode, depth)
            ELSE IF mode = "block_comment"
            THEN IF char = "*" /\ next_char = "/"
                 THEN ClosingBrace(text, k + 2, line, "code", depth)
                 ELSE ClosingBrace(text, k + 1, line_after, mode, depth)
            ELSE IF mode \in {"string", "char"}
            THEN IF char = NewLine THEN [outcome |-> "open_literal", line |-> line]
                 ELSE IF char = "\\"
                 THEN IF next_char \in {"", NewLine}
                      THEN [outcome |-> "open_literal", line |-> line]
                      ELSE ClosingBrace(text, k + 2, line, mode, depth)
                 ELSE IF (mode = "string" /\ char = "\"") \/ (mode = "char" /\ char = "'")
                 THEN ClosingBrace(text, k + 1, line, "code", depth)
                 ELSE ClosingBrace(text, k + 1, line, mode, depth)
            ELSE IF char = "/" /\ next_char = "/"
            THEN ClosingBrace(text, k + 2, line, "line_comment", depth)
            ELSE IF char = "/" /\ next_char = "*"
            THEN ClosingBrace(text, k + 2, line, "block_comment", depth)
            ELSE IF char = "\""
            THEN ClosingBrace(text, k + 1, line, "string", depth)
            ELSE IF char = "'"
            THEN ClosingBrace(text, k + 1, line, "char", depth)
            ELSE IF char = "{"
            THEN ClosingBrace(text, k + 1, line, mode, depth + 1)
            ELSE IF char = "}" /\ depth = 1
            THEN [outcome |-> "closed", line |-> line]
            ELSE IF char = "}" /\ depth > 1
            THEN ClosingBrace(text, k + 1, line, mode, depth - 1)
            ELSE ClosingBrace(text, k + 1, line_after, mode, depth)

ExpectedEnd ==
    ClosingBrace(TextFrom(source_lines, start_line), 1, start_line, "code", 0)

\* C21 as stated: find_function_end returns the index of the line holding
\* the brace that closes the first opening brace found at or after
\* start_line, counting only the braces outside string literals, character
\* literals, line comments and block comments, also when a literal holds an
\* escaped quote or an escaped backslash or a block comment spans lines,
\* and returns none when there is no such brace (every literal of the text
\* ending on its line).
C21_ClosingBraceOutsideLiterals ==
    epc = "done" =>
        /\ ExpectedEnd.outcome = "closed" => end_line = SomeLine(ExpectedEnd.line)
        /\ ExpectedEnd.outcome = "none" => end_line = None

(***************************************************************************)
(* get_definition_for_change 855-905.  The text of a definition is held by *)
(* its size: definition_lines is a list of runs, a run being count lines   *)
(* of chars characters each (the "\n" that readlines keeps included).      *)
(* What the file system, find_function_start and find_function_end give    *)
(* is the outcome field of definition_file.                                *)
(***************************************************************************)
MaxRuns == 2

\* len(definition) > 10000 (898) and definition_lines[:100] (900)
DefinitionCharLimit == 10000
TruncatedLineCount == 100
\* len("\n... [truncated, definition too long]\n") (901)
TruncationMarkerChars == 38

RunPool ==
    {[count |-> c, chars |-> w] : c \in {1, 50, 100, 101},
                                  w \in {1, 100, 101, 10000, 10001}}

DefinitionFiles ==
    {[outcome |-> o, definition_lines |-> <<>>] :
        o \in {"missing", "unreadable", "target_outside", "no_start", "no_end"}}
    \cup {[outcome |-> "found", definition_lines |-> runs] :
            runs \in UNION {[1..n -> RunPool] : n \in 1..MaxRuns}}

\* len("".join(definition_lines))
RECURSIVE JoinedChars(_)
JoinedChars(runs) ==
    IF runs = <<>> THEN 0
    ELSE Head(runs).count * Head(runs).chars + JoinedChars(Tail(runs))

\* definition_lines[:n]
RECURSIVE FirstLines(_, _)
FirstLines(runs, n) ==
    IF runs = <<>> \/ n = 0 THEN <<>>
    ELSE IF Head(runs).count <= n
    THEN <<Head(runs)>> \o FirstLines(Tail(runs), n - Head(runs).count)
    ELSE <<[count |-> n, chars |-> Head(runs).chars]>>

\* the string returned: the lines it is made of and whether the marker of
\* 901 follows them
DefinitionText(runs, marker) == [text_lines |-> runs, marker |-> marker]

\* get_definition_for_change 898-901
TruncatedDefinition(definition_lines) ==
    DefinitionText(FirstLines(definition_lines, TruncatedLineCount), TRUE)

\* get_definition_for_change 855-905
get_definition_for_change(file) ==
    IF file.outcome # "found" THEN None
    ELSE IF JoinedChars(file.definition_lines) > DefinitionCharLimit
    THEN TruncatedDefinition(file.definition_lines)
    ELSE DefinitionText(file.definition_lines, FALSE)

InitDefinition ==
    /\ definition_file \in DefinitionFiles
    /\ definition = None
    /\ dpc = "extract"
    /\ GroupIdle
    /\ AggIdle
    /\ ParseIdle
    /\ SplitIdle
    /\ FallbackIdle
    /\ EndIdle
    /\ XargsIdle

\* main 1824: definition = get_definition_for_change(...)
GetDefinitionForChange ==
    /\ dpc = "extract"
    /\ definition' = get_definition_for_change(definition_file)
    /\ dpc' = "done"
    /\ UNCHANGED definition_file
    /\ UNCHANGED <<groupVars, aggVars, parseVars, splitVars, fallbackVars,
                   endVars, xargsVars>>

NextDefinition == GetDefinitionForChange

SpecDefinition == InitDefinition /\ [][NextDefinition]_vars

\* C23 as stated: a definition of at most 10,000 characters is attached in
\* full; a longer one is returned cut at the 10,000-character limit and
\* followed by the truncation marker, so that the attached text never
\* exceeds 10,000 characters plus the marker.
C23_AtMostLimitPlusMarker ==
    (dpc = "done" /\ definition # None) =>
        LET total == JoinedChars(definition_file.definition_lines)
        IN /\ total <= DefinitionCharLimit
                 => definition = DefinitionText(definition_file.definition_lines, FALSE)
           /\ total > DefinitionCharLimit
                 => /\ definition.marker
                    /\ JoinedChars(definition.text_lines) <= DefinitionCharLimit

(***************************************************************************)
(* Properties of Stage B, read against the list Stage A made.              *)
(***************************************************************************)
StageAGroups == StageAResult(changes_by_file).file_groups

\* the changes of a list of groups, one group after the other
RECURSIVE JoinedChanges(_)
JoinedChanges(groups) ==
    IF groups = <<>> THEN <<>>
    ELSE Head(groups).changes \o JoinedChanges(Tail(groups))

\* output group k of Stage B holds as many Stage-A groups as it lists
\* files (1871); RunStart(k) is the index of the first of them
RunStart(k) ==
    1 + SumSeq([m \in 1..(k - 1) |-> Len(file_groups[m].files)])

RunTotal(first, n) ==
    SumSeq([m \in 1..n |-> StageAGroups[first + m - 1].total_lines])

\* C22: Stage B cuts the list of Stage-A groups into runs of consecutive
\* groups, in order; a group joins the current run whenever the combined
\* total stays within MAX_COMBINED_FILE_GROUP_LINES, so every run is
\* maximal and no two adjacent output groups have a combined total within
\* the cap.
C22_StageBMaximalRuns ==
    (gpc = "similarity" /\ Len(StageAGroups) > 1) =>
        /\ JoinedChanges(file_groups) = JoinedChanges(StageAGroups)
        /\ RunStart(Len(file_groups) + 1) = Len(StageAGroups) + 1
        /\ \A k \in 1..Len(file_groups) :
              LET first == RunStart(k)
                  n == Len(file_groups[k].files)
              IN /\ n >= 1
                 /\ file_groups[k].changes =
                       JoinedChanges(SubSeq(StageAGroups, first, first + n - 1))
                 /\ file_groups[k].total_lines = RunTotal(first, n)
                 /\ \A m \in 2..n :
                       RunTotal(first, m) <= MAX_COMBINED_FILE_GROUP_LINES
                 /\ k < Len(file_groups) =>
                       /\ file_groups[k].total_lines
                            + StageAGroups[first + n].total_lines
                              > MAX_COMBINED_FILE_GROUP_LINES
                       /\ file_groups[k].total_lines
                            + file_groups[k + 1].total_lines
                              > MAX_COMBINED_FILE_GROUP_LINES

\* C22 witness: three Stage-A groups became a run of two groups and a run
\* of one
C22_Witness ==
    /\ gpc = "similarity"
    /\ Len(StageAGroups) = 3
    /\ Len(file_groups) = 2
    /\ Len(file_groups[1].files) = 2
    /\ Len(file_groups[2].files) = 1

\* C26 as stated: every added or removed line of the hunk is in the content
\* of at least one segment split_hunk_by_functions returns, in each of its
\* cases.
C26_NoChangedLineDropped ==
    spc = "done" =>
        \A i \in 1..Len(split_hunk.lines) :
            LineInfo(split_hunk.lines[i]).modified =>
                \E k \in 1..Len(split_segments) :
                    i \in SeqRange(split_segments[k].hunk_content.lines)

(***************************************************************************)
(* Aggregation followed by grouping: main 1717-1910 on the segments of a   *)
(* diff.  The group builder starts from the changes_by_file the aggregator *)
(* filled.                                                                 *)
(***************************************************************************)
\* main 1787-1789: the aggregator is through, the numbering starts
StartGrouping ==
    /\ apc = "done"
    /\ gpc = "idle"
    /\ gpc' = "stage_a"
    /\ UNCHANGED <<changes_by_file, changes, file_groups, sim_input,
                   working_groups, working_funcs>>
    /\ UNCHANGED <<aggVars, parseVars, splitVars, fallbackVars,
                   endVars, definitionVars, xargsVars>>

NextDownstream ==
    \/ NextAgg
    \/ StartGrouping
    \/ NextGroup

SpecDownstream == InitAgg /\ [][NextDownstream]_vars

\* how often x occurs in the list
RECURSIVE Occurrences(_, _)
Occurrences(list, x) ==
    IF list = <<>> THEN 0
    ELSE (IF Head(list) = x THEN 1 ELSE 0) + Occurrences(Tail(list), x)

\* the Changes of the aggregator, file by file in path order
RECURSIVE AggregatedChanges(_)
AggregatedChanges(file) ==
    IF file \notin Files THEN <<>>
    ELSE changes_by_file[file] \o AggregatedChanges(file + 1)

\* every Change object stands for one Change of the aggregator and is held
\* once, by one group of the list
EachChangeInOneGroup(groups) ==
    /\ Len(changes) = Len(AggregatedChanges(1))
    /\ \A id \in 1..Len(changes) :
          /\ changes[id].function = AggregatedChanges(1)[id].function
          /\ changes[id].total_lines = AggregatedChanges(1)[id].total_lines
          /\ Occurrences(JoinedChanges(groups), id) = 1

\* C27: every segment is in exactly one Change of the aggregator, and every
\* Change of the aggregator is a member of exactly one group after Stage A,
\* after Stage B and after the similarity pass.
C27_NothingLostOrDuplicated ==
    /\ apc = "done" =>
          \A i \in 1..Len(segments) :
              Occurrences(JoinedSegments(AggregatedChanges(1)), i) = 1
    /\ gpc \in {"stage_b", "similarity", "done"} =>
          EachChangeInOneGroup(file_groups)
    /\ gpc = "sim_loop" => EachChangeInOneGroup(NotNone(working_groups))

\* C27 witness: a Change built from two segments and a second Change went
\* through the three passes, and the similarity pass merged their groups
C27_Witness ==
    /\ gpc = "done"
    /\ Len(segments) = 3
    /\ Len(changes) = 2
    /\ Len(sim_input) = 2
    /\ Len(file_groups) = 1

\* C28 as stated: parse_diff records no item twice, also for text with file
\* headers or hunk markers that do not match their pattern: each Hunk
\* object occurs at most once over all FileChange.hunks lists, and each
\* FileChange at most once in the list returned.
C28_NothingRecordedTwice ==
    ppc = "done" =>
        /\ \A h \in 1..Len(hunk_heap) :
              Occurrences(OutputHunks(file_changes), h) <= 1
        /\ \A f \in 1..Len(file_heap) : Occurrences(file_changes, f) <= 1

\* C29: after Stage A, after Stage B, after each merge of the similarity
\* pass and in the final list, the total_lines a group records is the sum
\* of the total_lines of the Changes it holds.
C29_GroupTotalIsSumOfChanges ==
    /\ gpc \in {"stage_b", "similarity", "done"} =>
          \A idx \in 1..Len(file_groups) :
              file_groups[idx].total_lines = Aggregate(file_groups[idx])
    /\ gpc = "sim_loop" =>
          \A k \in 1..Len(working_groups) :
              working_groups[k] # None =>
                  working_groups[k].total_lines = Aggregate(working_groups[k])

\* C29 witness: the similarity pass has merged two groups into a group of
\* Changes of different sizes and is not through yet
C29_Witness ==
    /\ gpc = "sim_loop"
    /\ \E k \in 1..Len(working_groups) :
          /\ working_groups[k] # None
          /\ Len(working_groups[k].changes) > Len(sim_input[k].changes)
          /\ \E a, b \in SeqRange(working_groups[k].changes) :
                changes[a].total_lines # changes[b].total_lines
          /\ working_groups[k].total_lines = Aggregate(working_groups[k])

\* C30 as stated: the total_lines of every Change, modification or new
\* function, of one segment or of several, is the number of lines of its
\* combined content as count_total_lines counts them.
C30_TotalLinesCountsContent ==
    apc = "done" =>
        \A file \in Files :
            \A n \in 1..Len(changes_by_file[file]) :
                changes_by_file[file][n].total_lines =
                    CombinedTotalLines(segments, changes_by_file[file][n].segments)

(***************************************************************************)
(* claude_xargs.py: main submits one run_claude_command per SHA to a       *)
(* thread pool; SIGINT or SIGTERM runs signal_handler in the main thread,  *)
(* while the workers go on.  A task names its worker and the process the   *)
(* worker launches.  Each "with processes_lock" block is one step: the     *)
(* lock makes the blocks exclude each other and none of them waits inside. *)
(*   wpc      "queued", "popen", "register", "communicate", "finally": the *)
(*            statement the worker executes next; "returned", "raised":    *)
(*            how run_claude_command ended                                 *)
(*   child    "none", "running", "exited" (by itself), "terminated" (by    *)
(*            SIGTERM), "killed" (by SIGKILL)                              *)
(*   returned the value of the return statement the worker executed        *)
(*   kpc      "idle", then the position inside kill_all_processes, then    *)
(*            "returned"                                                   *)
(***************************************************************************)
MaxTasks == 2

Tasks == 1..MaxTasks

\* the tuple (sha, return_code, stdout, stderr) of a task, by its
\* return_code and the message in stderr
ReturnTuple(return_code, stderr) == [return_code |-> return_code, stderr |-> stderr]

\* proc.returncode of a process that has ended
ReturnCode(child_state) ==
    IF child_state = "exited" THEN 0
    ELSE IF child_state = "terminated" THEN -15
    ELSE -9

\* proc.poll() is None
Running(t) == child[t] = "running"

\* list.remove(proc)
RECURSIVE RemoveFirst(_, _)
RemoveFirst(list, x) ==
    IF list = <<>> THEN <<>>
    ELSE IF Head(list) = x THEN Tail(list)
    ELSE <<Head(list)>> \o RemoveFirst(Tail(list), x)

\* main 204-217: the handlers are installed and every task is submitted
InitXargs ==
    /\ shutdown_event = FALSE
    /\ signal_received = FALSE
    /\ active_processes = <<>>
    /\ child = [t \in Tasks |-> "none"]
    /\ wpc = [t \in Tasks |-> "queued"]
    /\ returned = [t \in Tasks |-> None]
    /\ procs = <<>>
    /\ kpc = "idle"
    /\ mpc = "collect"
    /\ GroupIdle
    /\ AggIdle
    /\ ParseIdle
    /\ SplitIdle
    /\ FallbackIdle
    /\ EndIdle
    /\ DefinitionIdle

XargsRest ==
    UNCHANGED <<groupVars, aggVars, parseVars, splitVars, fallbackVars,
                endVars, definitionVars>>

\* run_claude_command 93-94: a pool thread takes the task
WorkerStart(t) ==
    /\ wpc[t] = "queued"
    /\ IF shutdown_event
       THEN /\ returned' = [returned EXCEPT
                               ![t] = ReturnTuple(-1, "Shutdown requested before start")]
            /\ wpc' = [wpc EXCEPT ![t] = "returned"]
       ELSE /\ wpc' = [wpc EXCEPT ![t] = "popen"]
            /\ UNCHANGED returned
    /\ UNCHANGED <<shutdown_event, signal_received, active_processes, child,
                   procs, kpc, mpc>>
    /\ XargsRest

\* run_claude_command 100-107: the process is launched
WorkerPopen(t) ==
    /\ wpc[t] = "popen"
    /\ child' = [child EXCEPT ![t] = "running"]
    /\ wpc' = [wpc EXCEPT ![t] = "register"]
    /\ UNCHANGED <<shutdown_event, signal_received, active_processes, returned,
                   procs, kpc, mpc>>
    /\ XargsRest

\* run_claude_command 100, 127-128: Popen raises; the return of 128 is
\* executed and the finally block is next, with proc never assigned
WorkerPopenRaises(t) ==
    /\ wpc[t] = "popen"
    /\ returned' = [returned EXCEPT ![t] = ReturnTuple(-1, "str(e)")]
    /\ wpc' = [wpc EXCEPT ![t] = "finally"]
    /\ UNCHANGED <<shutdown_event, signal_received, active_processes, child,
                   procs, kpc, mpc>>
    /\ XargsRest

\* run_claude_command 109-110
WorkerRegister(t) ==
    /\ wpc[t] = "register"
    /\ active_processes' = Append(active_processes, t)
    /\ wpc' = [wpc EXCEPT ![t] = "communicate"]
    /\ UNCHANGED <<shutdown_event, signal_received, child, returned, procs,
                   kpc, mpc>>
    /\ XargsRest

\* run_claude_command 113-114: communicate returns once the process ended
WorkerCommunicate(t) ==
    /\ wpc[t] = "communicate"
    /\ ~Running(t)
    /\ returned' = [returned EXCEPT ![t] = ReturnTuple(ReturnCode(child[t]), "")]
    /\ wpc' = [wpc EXCEPT ![t] = "finally"]
    /\ UNCHANGED <<shutdown_event, signal_received, active_processes, child,
                   procs, kpc, mpc>>
    /\ XargsRest

\* run_claude_command 115-125: the timeout expires; SIGTERM, and SIGKILL
\* when the process is still there a second later
WorkerTimeout(t) ==
    /\ wpc[t] = "communicate"
    /\ Running(t)
    /\ \E end \in {"terminated", "killed"} : child' = [child EXCEPT ![t] = end]
    /\ returned' = [returned EXCEPT ![t] = ReturnTuple(-1, "Timeout after")]
    /\ wpc' = [wpc EXCEPT ![t] = "finally"]
    /\ UNCHANGED <<shutdown_event, signal_received, active_processes, procs,
                   kpc, mpc>>
    /\ XargsRest

\* run_claude_command 129-132: with no process launched, the local proc is
\* unbound and line 131 raises UnboundLocalError in place of the return
WorkerFinally(t) ==
    /\ wpc[t] = "finally"
    /\ IF child[t] = "none"
       THEN /\ wpc' = [wpc EXCEPT ![t] = "raised"]
            /\ returned' = [returned EXCEPT ![t] = None]
            /\ UNCHANGED active_processes
       ELSE /\ wpc' = [wpc EXCEPT ![t] = "returned"]
            /\ active_processes' = RemoveFirst(active_processes, t)
            /\ UNCHANGED returned
    /\ UNCHANGED <<shutdown_event, signal_received, child, procs, kpc, mpc>>
    /\ XargsRest

\* the launched command ends by itself
ChildExits(t) ==
    /\ Running(t)
    /\ child' = [child EXCEPT ![t] = "exited"]
    /\ UNCHANGED <<shutdown_event, signal_received, active_processes, wpc,
                   returned, procs, kpc, mpc>>
    /\ XargsRest

\* signal_handler 22-31 up to the call of kill_all_processes; a second
\* signal returns at line 26
SignalHandler ==
    /\ mpc # "exit"
    /\ ~signal_received
    /\ kpc = "idle"
    /\ signal_received' = TRUE
    /\ shutdown_event' = TRUE
    /\ kpc' = "snapshot"
    /\ UNCHANGED <<active_processes, child, wpc, returned, procs, mpc>>
    /\ XargsRest

\* kill_all_processes 36-40
KillSnapshot ==
    /\ kpc = "snapshot"
    /\ procs' = active_processes
    /\ kpc' = IF active_processes = <<>> THEN "returned" ELSE "sigterm"
    /\ UNCHANGED <<shutdown_event, signal_received, active_processes, child,
                   wpc, returned, mpc>>
    /\ XargsRest

\* kill_all_processes 42-48: SIGTERM to the groups of procs; a command may
\* end on it or go on
KillSigterm ==
    /\ kpc = "sigterm"
    /\ \E ended \in SUBSET {t \in SeqRange(procs) : Running(t)} :
          child' = [t \in Tasks |-> IF t \in ended THEN "terminated" ELSE child[t]]
    /\ kpc' = "wait"
    /\ UNCHANGED <<shutdown_event, signal_received, active_processes, wpc,
                   returned, procs, mpc>>
    /\ XargsRest

\* kill_all_processes 50-69: the wait ends (all ended, or five seconds
\* passed) and what is still running among active_processes gets SIGKILL
KillSigkill ==
    /\ kpc = "wait"
    /\ child' = [t \in Tasks |->
                    IF t \in SeqRange(active_processes) /\ Running(t)
                    THEN "killed" ELSE child[t]]
    /\ kpc' = "final_wait"
    /\ UNCHANGED <<shutdown_event, signal_received, active_processes, wpc,
                   returned, procs, mpc>>
    /\ XargsRest

\* kill_all_processes 71-84: wait for each process of procs, SIGKILL again
\* for one that did not exit
KillFinalWait ==
    /\ kpc = "final_wait"
    /\ child' = [t \in Tasks |->
                    IF t \in SeqRange(procs) /\ Running(t)
                    THEN "killed" ELSE child[t]]
    /\ kpc' = "returned"
    /\ UNCHANGED <<shutdown_event, signal_received, active_processes, wpc,
                   returned, procs, mpc>>
    /\ XargsRest

\* main 219-242: the loop over as_completed ends: every future is through,
\* or shutdown_event is set (221), or future.result() raised (223, 241);
\* the main thread is not inside the handler
MainLeavesLoop ==
    /\ mpc = "collect"
    /\ kpc \in {"idle", "returned"}
    /\ \/ \A t \in Tasks : wpc[t] \in {"returned", "raised"}
       \/ shutdown_event
       \/ \E t \in Tasks : wpc[t] = "raised"
    /\ mpc' = "join"
    /\ UNCHANGED <<shutdown_event, signal_received, active_processes, child,
                   wpc, returned, procs, kpc>>
    /\ XargsRest

\* main 213, 243-249: the executor waits for its workers, the finally
\* block finds signal_received set whenever shutdown_event is, and main
\* exits
MainExit ==
    /\ mpc = "join"
    /\ kpc \in {"idle", "returned"}
    /\ \A t \in Tasks : wpc[t] \in {"returned", "raised"}
    /\ mpc' = "exit"
    /\ UNCHANGED <<shutdown_event, signal_received, active_processes, child,
                   wpc, returned, procs, kpc>>
    /\ XargsRest

NextXargs ==
    \/ \E t \in Tasks : WorkerStart(t)
    \/ \E t \in Tasks : WorkerPopen(t)
    \/ \E t \in Tasks : WorkerPopenRaises(t)
    \/ \E t \in Tasks : WorkerRegister(t)
    \/ \E t \in Tasks : WorkerCommunicate(t)
    \/ \E t \in Tasks : WorkerTimeout(t)
    \/ \E t \in Tasks : WorkerFinally(t)
    \/ \E t \in Tasks : ChildExits(t)
    \/ SignalHandler
    \/ KillSnapshot
    \/ KillSigterm
    \/ KillSigkill
    \/ KillFinalWait
    \/ MainLeavesLoop
    \/ MainExit

SpecXargs == InitXargs /\ [][NextXargs]_vars

\* C24 as stated: once kill_all_processes, called by the handler of SIGINT
\* or SIGTERM, has returned, no process launched by a worker is running,
\* wherever the workers stood when the signal came.
C24_NoChildRunsAfterKillAll ==
    kpc = "returned" => \A t \in Tasks : ~Running(t)

\* C25 as stated: run_claude_command always ends by returning its tuple,
\* with return_code -1 and a message after a shutdown before the start, a
\* timeout or a failed launch, and on return the process it started is not
\* in active_processes.
C25_AlwaysReturnsTuple ==
    \A t \in Tasks :
        /\ wpc[t] # "raised"
        /\ wpc[t] = "returned" =>
              /\ returned[t] # None
              /\ returned[t].stderr # "" => returned[t].return_code = -1
              /\ t \notin SeqRange(active_processes)

====
